---- MODULE Spec2Model ----
(***************************************************************************)
(* Resilience core of the pesakit payment SDK: the multi-strategy rate     *)
(* limiter, the per-endpoint circuit breaker and the encrypted TTL cache   *)
(* with its token specialisation.  Times are in milliseconds.              *)
(***************************************************************************)
EXTENDS Integers, Sequences, FiniteSets, Bags, TLC

VARIABLES
    now,            \* Date.now()
    nCalls,         \* number of operations issued so far (bounds the runs)
    strategy,       \* RateLimiter.strategy
    cfg,            \* RateLimiter {requests, window, burst}
    buckets,        \* RateLimiter.buckets       : key -> TokenBucket
    slidingWindows, \* RateLimiter.slidingWindows: key -> timestamps
    fixedWindows,   \* RateLimiter.fixedWindows  : windowKey -> {count, resetTime}
    rlResult,       \* outcome of the last isAllowed call
    rlStatus,       \* what the last getStatus call returned
    allowedLog,     \* history: per key, the instants of its admitted window calls
    cbOpts,         \* PesakitCircuitBreaker.options
    breakers,       \* PesakitCircuitBreaker.breakers: endpoint -> breaker
    inflight,       \* protect calls whose work has been invoked and has not settled
    cbResult,       \* what the last completed protect call gave its caller
    encryptionKey,  \* SecureCache.encryptionKey
    data,           \* SecureCache.cache (its entries): key -> {t, v}
    cacheResult,    \* what the last cache operation returned
    lastSet,        \* history: per key, its last set, if nothing wrote or deleted it since
    cachedUnder,    \* history: the <<consumer key, token>> pairs given to setToken
    invalidated,    \* history: the consumer keys invalidated, with no setToken on their entry since
    metrics,        \* MetricsCollector.metrics {counters, gauges, histograms}
    startTime,      \* MetricsCollector.startTime
    snapshot,       \* what the last getMetrics call returned
    checks,         \* HealthChecker.checks: name -> {timeout, critical}
    run,            \* the last call of HealthChecker.check: its results and its probes
    values,         \* the samples given to calculatePercentiles
    percentiles,    \* what calculatePercentiles returned for them
    monOpts,        \* MetricsCollector.options
    authResult,     \* outcome of the last getOAuthToken call that completed
    pending,        \* calls of async methods that have started and whose caller has not resumed
    spent,          \* history: per key, when its bucket was created, the cost admitted since
                    \* and whether a call was refused since
    timed           \* what the last completed call of MetricsCollector.time gave its caller

rlVars == <<strategy, cfg, buckets, slidingWindows, fixedWindows, rlResult, rlStatus,
           allowedLog>>

cbVars == <<cbOpts, breakers, inflight, cbResult>>

cacheVars == <<encryptionKey, data, cacheResult, lastSet, cachedUnder, invalidated>>

monVars == <<metrics, startTime, monOpts, snapshot, checks, run, values, percentiles>>

clientVars == <<authResult, pending, spent, timed>>

vars == <<now, nCalls, rlVars, cbVars, cacheVars, monVars, clientVars>>

----------------------------------------------------------------------------
(* Bounds of the model *)

\* longest run of rate-limiter operations explored
MaxCalls == 5

\* protect calls explored beyond the volume threshold
ExtraFires == 1

\* protect calls that may be in flight together
MaxInflight == 2

\* buckets of a breaker's rolling window
RollingCountBuckets == 1

\* longest run of cache operations explored
MaxCacheOps == 3

\* bytes in a block of the cipher (and in its initialisation vector)
BlockSize == 4

----------------------------------------------------------------------------
(* Generic helpers: a JavaScript Map as a function with a growing domain *)

EmptyMap == [k \in {} |-> 0]

MapHas(m, k) == k \in DOMAIN m

MapPut(m, k, v) == [x \in (DOMAIN m) \cup {k} |-> IF x = k THEN v ELSE m[x]]

MapDelAll(m, ks) == [x \in (DOMAIN m) \ ks |-> m[x]]

Max(a, b) == IF a >= b THEN a ELSE b

Min(a, b) == IF a <= b THEN a ELSE b

\* Math.ceil(a / b) for b > 0
CeilDiv(a, b) == -((-a) \div b)

----------------------------------------------------------------------------
(* Strings are sequences of characters, so that template literals and      *)
(* startsWith are computed as the code computes them.                      *)

Digit(d) == <<"0", "1", "2", "3", "4", "5", "6", "7", "8", "9">>[d + 1]

RECURSIVE NatToStr(_)
NatToStr(n) == IF n < 10 THEN <<Digit(n)>> ELSE NatToStr(n \div 10) \o <<Digit(n % 10)>>

\* `${key}:${windowStart}`
WindowKey(key, windowStart) == key \o <<":">> \o NatToStr(windowStart)

----------------------------------------------------------------------------
(* Circuit breaker: options, errors and the state of one breaker *)

DefaultOptionsThreshold60 ==
    [timeout |-> 30000, errorThresholdPercentage |-> 60, resetTimeout |-> 60000,
     volumeThreshold |-> 10, enabled |-> TRUE]

\* PesakitCircuitBreaker.constructor defaults
DefaultOptions ==
    [timeout |-> 30000, errorThresholdPercentage |-> 50, resetTimeout |-> 60000,
     volumeThreshold |-> 10, enabled |-> TRUE]

\* no protect call has completed yet
NoCbResult ==
    [op |-> "none", endpoint |-> "", workInvoked |-> FALSE, kind |-> "none",
     cause |-> [code |-> "none", status |-> 0], nextAttemptIn |-> 0]

\* no getOAuthToken call has completed yet.  answered is history: the status of the
\* provider's answer to the call's token request (0: the request got no answer, or
\* none was made)
NoAuthResult == [kind |-> "none", token |-> <<>>, cached |-> FALSE, answered |-> 0]

\* the state right after new PesakitCircuitBreaker(options)
CBConstructed(options) ==
    /\ cbOpts = options
    /\ breakers = EmptyMap
    /\ inflight = EmptyBag
    /\ cbResult = NoCbResult

----------------------------------------------------------------------------
(* Cache: JSON text, the cipher and the stored record  (src/lib/cache.js) *)

\* JavaScript values as records of one shape, so that deep equality is =.
\* t is the type; n the number; s the characters of a string; ks and items the
\* member names and the member (or element) values, in enumeration order.
JValue(t, n, s, ks, items) == [t |-> t, n |-> n, s |-> s, ks |-> ks, items |-> items]

JUndefined == JValue("undefined", 0, <<>>, <<>>, <<>>)

\* before any time() call has completed
NoTimed == [kind |-> "none", value |-> JUndefined, error |-> JUndefined]

\* no call of the client or of a component has been issued
CallersIdle ==
    /\ authResult = NoAuthResult
    /\ pending = EmptyBag
    /\ spent = EmptyMap
    /\ timed = NoTimed

JNull == JValue("null", 0, <<>>, <<>>, <<>>)

JBool(b) == JValue(IF b THEN "true" ELSE "false", 0, <<>>, <<>>, <<>>)

JNum(n) == JValue("number", n, <<>>, <<>>, <<>>)

JStr(s) == JValue("string", 0, s, <<>>, <<>>)

JArr(items) == JValue("array", 0, <<>>, <<>>, items)

JObj(ks, items) == JValue("object", 0, <<>>, ks, items)

\* v[name] of JavaScript
Field(v, name) ==
    IF v.t = "object" /\ \E i \in 1..Len(v.ks) : v.ks[i] = name
    THEN v.items[CHOOSE i \in 1..Len(v.ks) : v.ks[i] = name]
    ELSE JUndefined

\* !v of JavaScript
Falsy(v) ==
    \/ v.t \in {"undefined", "null", "false"}
    \/ v.t = "number" /\ v.n = 0
    \/ v.t = "string" /\ v.s = <<>>

IntToStr(n) == IF n < 0 THEN <<"-">> \o NatToStr(-n) ELSE NatToStr(n)

EscapedNothing(s) == s

RECURSIVE Escaped(_)
\* the characters of a string inside its quotes
Escaped(s) ==
    IF s = <<>> THEN <<>>
    ELSE (CASE Head(s) = "\"" -> <<"\\", "\"">>
            [] Head(s) = "\\" -> <<"\\", "\\">>
            [] OTHER -> <<Head(s)>>) \o Escaped(Tail(s))

Quote(s) == <<"\"">> \o Escaped(s) \o <<"\"">>

RECURSIVE JSONStringify(_)
\* JSON.stringify on a value of the JSON data model
JSONStringify(v) ==
    LET RECURSIVE Elements(_)
        Elements(i) ==
            IF i > Len(v.items) THEN <<>>
            ELSE (IF i > 1 THEN <<",">> ELSE <<>>)
                 \o (IF v.t = "object" THEN Quote(v.ks[i]) \o <<":">> ELSE <<>>)
                 \o JSONStringify(v.items[i]) \o Elements(i + 1)
    IN  CASE v.t = "null" -> <<"n", "u", "l", "l">>
          [] v.t = "true" -> <<"t", "r", "u", "e">>
          [] v.t = "false" -> <<"f", "a", "l", "s", "e">>
          [] v.t = "number" -> IntToStr(v.n)
          [] v.t = "string" -> Quote(v.s)
          [] v.t = "array" -> <<"[">> \o Elements(1) \o <<"]">>
          [] v.t = "object" -> <<"{">> \o Elements(1) \o <<"}">>

\* the outcome of a parsing step: the value read and the text left, or a SyntaxError
Parsed(v, rest) == [ok |-> TRUE, v |-> v, rest |-> rest]

SyntaxError == [ok |-> FALSE, v |-> JUndefined, rest |-> <<>>]

Whitespace == {" ", "\t", "\n", "\r"}

ControlChar == "\f"

RECURSIVE SkipWs(_)
SkipWs(s) == IF s # <<>> /\ Head(s) \in Whitespace THEN SkipWs(Tail(s)) ELSE s

IsDigit(c) == \E d \in 0..9 : Digit(d) = c

DigitVal(c) == CHOOSE d \in 0..9 : Digit(d) = c

StartsWith(s, prefix) ==
    Len(s) >= Len(prefix) /\ SubSeq(s, 1, Len(prefix)) = prefix

RECURSIVE ParseDigits(_, _)
ParseDigits(s, acc) ==
    IF s # <<>> /\ IsDigit(Head(s))
    THEN ParseDigits(Tail(s), acc * 10 + DigitVal(Head(s)))
    ELSE Parsed(acc, s)

\* an integer: -? (0 | [1-9][0-9]*)
ParseNumber(s) ==
    LET neg == Head(s) = "-"
        d == IF neg THEN Tail(s) ELSE s
    IN  IF d = <<>> \/ ~IsDigit(Head(d)) THEN SyntaxError
        ELSE LET r == IF Head(d) = "0" THEN Parsed(0, Tail(d)) ELSE ParseDigits(d, 0)
             IN  Parsed(JNum(IF neg THEN -r.v ELSE r.v), r.rest)

RECURSIVE ParseChars(_, _)
\* the characters of a string, after its opening quote
ParseChars(s, acc) ==
    IF s = <<>> THEN SyntaxError
    ELSE CASE Head(s) = "\"" -> Parsed(JStr(acc), Tail(s))
           [] Head(s) = "\\" ->
                IF Len(s) >= 2 /\ s[2] \in {"\"", "\\", "/"}
                THEN ParseChars(SubSeq(s, 3, Len(s)), Append(acc, s[2]))
                ELSE IF Len(s) >= 2 /\ s[2] \in {"n", "r", "t", "f"}
                THEN ParseChars(SubSeq(s, 3, Len(s)),
                                Append(acc, CASE s[2] = "n" -> "\n" [] s[2] = "r" -> "\r"
                                              [] s[2] = "t" -> "\t" [] s[2] = "f" -> "\f"))
                ELSE SyntaxError
           [] Head(s) \in (Whitespace \ {" "}) \cup {ControlChar} -> SyntaxError
           [] OTHER -> ParseChars(Tail(s), Append(acc, Head(s)))

RECURSIVE ParseValue(_)
ParseValue(text) ==
    LET s == SkipWs(text)
        Literal(word, v) ==
            IF StartsWith(s, word) THEN Parsed(v, SubSeq(s, Len(word) + 1, Len(s)))
            ELSE SyntaxError
        RECURSIVE Elements(_, _)
        Elements(t, items) ==
            LET r == ParseValue(t)
                u == SkipWs(r.rest)
            IN  IF ~r.ok \/ u = <<>> THEN SyntaxError
                ELSE IF Head(u) = "," THEN Elements(Tail(u), Append(items, r.v))
                ELSE IF Head(u) = "]" THEN Parsed(JArr(Append(items, r.v)), Tail(u))
                ELSE SyntaxError
        RECURSIVE Members(_, _, _)
        Members(t, ks, items) ==
            LET k == SkipWs(t)
                name == IF k # <<>> /\ Head(k) = "\"" THEN ParseChars(Tail(k), <<>>)
                        ELSE SyntaxError
                c == SkipWs(name.rest)
                r == IF name.ok /\ c # <<>> /\ Head(c) = ":" THEN ParseValue(Tail(c))
                     ELSE SyntaxError
                u == SkipWs(r.rest)
            IN  IF ~r.ok \/ u = <<>> THEN SyntaxError
                ELSE IF Head(u) = ","
                     THEN Members(Tail(u), Append(ks, name.v.s), Append(items, r.v))
                ELSE IF Head(u) = "}"
                     THEN Parsed(JObj(Append(ks, name.v.s), Append(items, r.v)), Tail(u))
                ELSE SyntaxError
    IN  IF s = <<>> THEN SyntaxError
        ELSE CASE Head(s) = "n" -> Literal(<<"n", "u", "l", "l">>, JNull)
               [] Head(s) = "t" -> Literal(<<"t", "r", "u", "e">>, JBool(TRUE))
               [] Head(s) = "f" -> Literal(<<"f", "a", "l", "s", "e">>, JBool(FALSE))
               [] Head(s) = "\"" -> ParseChars(Tail(s), <<>>)
               [] Head(s) = "-" \/ IsDigit(Head(s)) -> ParseNumber(s)
               [] Head(s) = "[" ->
                    LET t == SkipWs(Tail(s)) IN
                    IF t # <<>> /\ Head(t) = "]" THEN Parsed(JArr(<<>>), Tail(t))
                    ELSE Elements(t, <<>>)
               [] Head(s) = "{" ->
                    LET t == SkipWs(Tail(s)) IN
                    IF t # <<>> /\ Head(t) = "}" THEN Parsed(JObj(<<>>, <<>>), Tail(t))
                    ELSE Members(t, <<>>, <<>>)
               [] OTHER -> SyntaxError

\* JSON.parse: one value and nothing but white space after it
JSONParse(text) ==
    LET r == ParseValue(text) IN
    IF r.ok /\ SkipWs(r.rest) = <<>> THEN r ELSE SyntaxError

\* The characters of codes 32 to 126, in order.
Printable ==
    << " ", "!", "\"", "#", "$", "%", "&", "'", "(", ")", "*", "+", ",", "-", ".", "/",
       "0", "1", "2", "3", "4", "5", "6", "7", "8", "9", ":", ";", "<", "=", ">", "?",
       "@", "A", "B", "C", "D", "E", "F", "G", "H", "I", "J", "K", "L", "M", "N", "O",
       "P", "Q", "R", "S", "T", "U", "V", "W", "X", "Y", "Z", "[", "\\", "]", "^", "_",
       "GRAVE", "a", "b", "c", "d", "e", "f", "g", "h", "i", "j", "k", "l", "m", "n", "o",
       "p", "q", "r", "s", "t", "u", "v", "w", "x", "y", "z", "{", "|", "}", "~" >>

CodeOf ==
    [c \in {Printable[i] : i \in 1..Len(Printable)} |->
        31 + (CHOOSE i \in 1..Len(Printable) : Printable[i] = c)]

\* the number of values of a byte
Bytes == 256

\* text to bytes ('utf8' input encoding; the texts are ASCII)
Utf8Encode(text) == [i \in 1..Len(text) |-> CodeOf[text[i]]]

\* bytes to text ('utf8' output encoding): a byte that is no ASCII character
\* becomes the replacement character
Utf8Decode(bytes) ==
    [i \in 1..Len(bytes) |->
        LET b == bytes[i] IN
        CASE b >= 32 /\ b <= 126 -> Printable[b - 31]
          [] b = 9 -> "\t"
          [] b = 10 -> "\n"
          [] b = 13 -> "\r"
          [] b < 32 -> ControlChar
          [] b = 127 -> "DEL"
          [] OTHER -> "U+FFFD"]

HexDigits == <<"0", "1", "2", "3", "4", "5", "6", "7", "8", "9", "a", "b", "c", "d", "e", "f">>

UpperHexDigits == <<"0", "1", "2", "3", "4", "5", "6", "7", "8", "9", "A", "B", "C", "D", "E", "F">>

\* the value of every hexadecimal digit, of either case
HexValue ==
    [c \in {HexDigits[i] : i \in 1..16} \cup {UpperHexDigits[i] : i \in 1..16} |->
        (CHOOSE i \in 1..16 : HexDigits[i] = c \/ UpperHexDigits[i] = c) - 1]

IsHex(c) == c \in DOMAIN HexValue

HexVal(c) == HexValue[c]

\* buffer.toString('hex')
ToHex(bytes) ==
    [i \in 1..(2 * Len(bytes)) |->
        LET b == bytes[(i + 1) \div 2]
        IN  IF i % 2 = 1 THEN HexDigits[(b \div 16) + 1] ELSE HexDigits[(b % 16) + 1]]

\* Buffer.from(text, 'hex'): decoding stops at the first pair that is not hexadecimal
FromHex(text) ==
    LET pairs == Len(text) \div 2
        bad == {i \in 1..pairs : ~(IsHex(text[2 * i - 1]) /\ IsHex(text[2 * i]))}
        n == IF bad = {} THEN pairs ELSE (CHOOSE i \in bad : \A j \in bad : i <= j) - 1
    IN  [i \in 1..n |-> HexVal(text[2 * i - 1]) * 16 + HexVal(text[2 * i])]

\* text.indexOf(sep) + 1: the first place of sep in text, 0 when there is none
IndexOf(text, sep) ==
    LET at == {i \in 1..Len(text) : text[i] = sep} IN
    IF at = {} THEN 0 ELSE CHOOSE i \in at : \A j \in at : i <= j

RECURSIVE Split(_, _)
\* text.split(sep)
Split(text, sep) ==
    LET i == IndexOf(text, sep) IN
    IF i = 0 THEN <<text>>
    ELSE <<SubSeq(text, 1, i - 1)>> \o Split(SubSeq(text, i + 1, Len(text)), sep)

\* The block cipher stands for AES-256: for every key a permutation of the blocks
\* (here: the bytes rotated by one place and shifted by multiples of the key).
\* XOR of the chaining is addition of bytes.
EncryptBlock(key, block) ==
    [i \in 1..BlockSize |-> (block[(i % BlockSize) + 1] + key * i) % Bytes]

DecryptBlock(key, block) ==
    [j \in 1..BlockSize |->
        LET i == ((j + BlockSize - 2) % BlockSize) + 1 IN
        (block[i] + Bytes * key * i - key * i) % Bytes]

Mix(a, b) == [i \in 1..BlockSize |-> (a[i] + b[i]) % Bytes]

Unmix(c, b) == [i \in 1..BlockSize |-> (c[i] + Bytes - b[i]) % Bytes]

\* PKCS#7 padding of cipher.final
Pad(bytes) ==
    LET p == BlockSize - (Len(bytes) % BlockSize) IN bytes \o [i \in 1..p |-> p]

PadOk(bytes) ==
    /\ bytes # <<>>
    /\ LET p == bytes[Len(bytes)] IN
       /\ p >= 1 /\ p <= BlockSize
       /\ \A i \in (Len(bytes) - p + 1)..Len(bytes) : bytes[i] = p

Unpad(bytes) == SubSeq(bytes, 1, Len(bytes) - bytes[Len(bytes)])

RECURSIVE CbcEncrypt(_, _, _)
CbcEncrypt(key, prev, bytes) ==
    IF bytes = <<>> THEN <<>>
    ELSE LET c == EncryptBlock(key, Mix(SubSeq(bytes, 1, BlockSize), prev)) IN
         c \o CbcEncrypt(key, c, SubSeq(bytes, BlockSize + 1, Len(bytes)))

RECURSIVE CbcDecrypt(_, _, _)
CbcDecrypt(key, prev, bytes) ==
    IF bytes = <<>> THEN <<>>
    ELSE LET c == SubSeq(bytes, 1, BlockSize) IN
         Unmix(DecryptBlock(key, c), prev)
         \o CbcDecrypt(key, c, SubSeq(bytes, BlockSize + 1, Len(bytes)))

\* SecureCache.encrypt, with the bytes crypto.randomBytes returned
Encrypt(key, iv, text) ==
    ToHex(iv) \o <<":">> \o ToHex(CbcEncrypt(key, iv, Pad(Utf8Encode(text))))

\* the outcome of decrypt: the text, or the ConfigurationError
Decrypted(text) == [ok |-> TRUE, text |-> text]

DecryptFailed == [ok |-> FALSE, text |-> <<>>]

\* SecureCache.decrypt
Decrypt(key, encryptedText) ==
    LET parts == Split(encryptedText, ":")
        iv == FromHex(parts[1])
        encrypted == FromHex(parts[2])
        plain == CbcDecrypt(key, iv, encrypted)
    IN  IF Len(parts) < 2 \/ Len(iv) # BlockSize THEN DecryptFailed
        ELSE IF encrypted = <<>> \/ Len(encrypted) % BlockSize # 0 THEN DecryptFailed
        ELSE IF ~PadOk(plain) THEN DecryptFailed
        ELSE Decrypted(Utf8Decode(Unpad(plain)))

\* the keys given as options.encryptionKey
EncryptionKeys == {3}

\* SecureCache.constructor: stdTTL, in seconds
StdTTL == 3300

\* SecureCache.constructor: checkperiod, in seconds
CheckPeriod == 600

\* the ttl argument of set: null, or a number of seconds
NullTtl == [given |-> FALSE, s |-> 0]

Seconds(n) == [given |-> TRUE, s |-> n]

\* unreadable is history: the call found a record it could not decrypt or deserialize;
\* why is history: the test of getToken that made it delete the entry
NoCacheResult ==
    [op |-> "none", key |-> <<>>, threw |-> FALSE, value |-> JUndefined,
     unreadable |-> FALSE, why |-> ""]

\* SecureCache.constructor (and TokenCache.constructor) with options.encryptionKey
CacheConstructed(key) ==
    /\ encryptionKey = key
    /\ data = EmptyMap
    /\ cacheResult = NoCacheResult
    /\ lastSet = EmptyMap
    /\ cachedUnder = {}
    /\ invalidated = {}

\* before any getMetrics call
NoSnapshot ==
    [timestamp |-> -1, uptime |-> 0, counters |-> EmptyMap, gauges |-> EmptyMap,
     histograms |-> EmptyMap]

\* before any call of check; results are the results object of the call, pending the
\* probes whose race is undecided, unsettled the probes whose checkFn has not settled,
\* timers the timeouts that have not fired; first and order are history: per probe the
\* first thing that happened to it, and the probes in the order of these happenings
NoRun ==
    [phase |-> "idle", probes |-> <<>>,
     results |-> [status |-> "none", timestamp |-> 0, checks |-> EmptyMap,
                  summary |-> [total |-> 0, healthy |-> 0, unhealthy |-> 0, critical |-> 0]],
     pending |-> {}, unsettled |-> {}, timers |-> {}, first |-> EmptyMap, order |-> <<>>]

\* before calculatePercentiles has returned
NoPercentiles == [done |-> FALSE, result |-> EmptyMap]

\* the state right after new MetricsCollector(options) and new HealthChecker()
\* the options of new MetricsCollector() that the model follows
DefaultMonOptions == [enableHistograms |-> TRUE]

\* the state right after new MetricsCollector(options) and new HealthChecker(), with the
\* probes the owner registers while it is constructed
MonitoringConstructed(options, registered) ==
    /\ monOpts = options
    /\ metrics = [counters |-> <<>>, gauges |-> <<>>, histograms |-> <<>>, timers |-> <<>>]
    /\ startTime = now
    /\ snapshot = NoSnapshot
    /\ checks = registered
    /\ run = NoRun
    /\ percentiles = NoPercentiles

MonConstructedWith(options) == MonitoringConstructed(options, <<>>)

MonConstructed == MonConstructedWith(DefaultMonOptions)

----------------------------------------------------------------------------
(* Rate limiter *)

TokenBucketStrategy == "token-bucket"

SlidingWindowStrategy == "sliding-window"

FixedWindowStrategy == "fixed-window"

\* quota keys the callers use; the second contains ':' and extends the first
Keys == { <<"a">>, <<"a", ":", "0">> }

\* costs passed to isAllowed(key, tokens); the default is 1
Costs == {-1, 1, 2}

\* the client's configuration (index.js) and the window of the documented example
ClientConfig == [requests |-> 100, window |-> 60000, burst |-> 10]

WindowConfig == [requests |-> 3, window |-> 1000, burst |-> 10]

\* options of a limiter that refills less than one token per refill period
SlowConfig == [requests |-> 30, window |-> 60000, burst |-> 1]

\* a strategy name the limiter does not know
UnknownStrategy == "leaky-bucket"

Setups ==
    { <<TokenBucketStrategy, ClientConfig>>,
      <<TokenBucketStrategy, SlowConfig>>,
      <<SlidingWindowStrategy, WindowConfig>>,
      <<FixedWindowStrategy, WindowConfig>>,
      <<UnknownStrategy, WindowConfig>> }

\* the instants at which the clock is observed, around the refill and window edges
Instants(s) ==
    IF s = TokenBucketStrategy
    THEN {0, 599, 600, 1000, 1200, 6000}
    ELSE {0, 1, 999, 1000, 1001, 2000, 2001}

RefillPeriod == 1000

\* new TokenBucket(this.burst, this.requests / (this.window / 1000))
NewBucket == [tokens |-> cfg.burst, lastRefill |-> now]

TokensToAddCeil(b) ==
    CeilDiv((now - b.lastRefill) * cfg.requests, (RefillPeriod * cfg.window) \div 1000)

\* Math.floor((timePassed / refillPeriod) * refillRate), refillRate = requests / (window / 1000)
TokensToAdd(b) ==
    ((now - b.lastRefill) * cfg.requests) \div ((RefillPeriod * cfg.window) \div 1000)

\* TokenBucket.refill
Refill(b) ==
    IF TokensToAdd(b) > 0
    THEN [tokens |-> Min(cfg.burst, b.tokens + TokensToAdd(b)), lastRefill |-> now]
    ELSE b

ConsumeUndebited(b, cost) == Refill(b)

\* TokenBucket.consume: the bucket after the call
Consume(b, cost) ==
    LET r == Refill(b) IN IF r.tokens >= cost THEN [r EXCEPT !.tokens = @ - cost] ELSE r

\* TokenBucket.consume: its return value
ConsumeOk(b, cost) == Refill(b).tokens >= cost

\* TokenBucket.getTimeUntilRefill
GetTimeUntilRefill(b) == Max(0, RefillPeriod - (now - b.lastRefill))

\* thrown is the class of the error the call threw
NoResult ==
    [op |-> "none", key |-> <<>>, cost |-> 0, at |-> 0, allowed |-> FALSE,
     retryAfter |-> 0, remaining |-> 0, thrown |-> "none"]

Outcome(key, cost, allowed, retryAfter, remaining) ==
    [op |-> "isAllowed", key |-> key, cost |-> cost, at |-> now, allowed |-> allowed,
     retryAfter |-> retryAfter, remaining |-> remaining,
     thrown |-> IF allowed THEN "none" ELSE "RateLimitError"]

\* before any getStatus call
NoStatus == [returned |-> FALSE]

\* RateLimiter.tokenBucketCheck
tokenBucketCheck(key, cost) ==
    LET before == IF MapHas(buckets, key) THEN buckets[key] ELSE NewBucket
        ok     == ConsumeOk(before, cost)
        after  == Consume(before, cost)
    IN  /\ buckets' = MapPut(buckets, key, after)
        /\ rlResult' = Outcome(key, cost, ok,
                               IF ok THEN 0 ELSE CeilDiv(GetTimeUntilRefill(after), 1000),
                               after.tokens)
        /\ UNCHANGED <<slidingWindows, fixedWindows, allowedLog>>

\* while (requests.length > 0 && requests[0] < cutoff) requests.shift()
RECURSIVE PruneInclusive(_, _)
PruneInclusive(reqs, cutoff) ==
    IF Len(reqs) > 0 /\ reqs[1] <= cutoff THEN PruneInclusive(Tail(reqs), cutoff) ELSE reqs

RECURSIVE Prune(_, _)
Prune(reqs, cutoff) ==
    IF Len(reqs) > 0 /\ reqs[1] < cutoff THEN Prune(Tail(reqs), cutoff) ELSE reqs

LogAllowed(key) ==
    allowedLog' = MapPut(allowedLog, key,
                         (IF MapHas(allowedLog, key) THEN allowedLog[key] ELSE <<>>) \o <<now>>)

\* RateLimiter.slidingWindowCheck
slidingWindowCheck(key, cost) ==
    LET stored == IF MapHas(slidingWindows, key) THEN slidingWindows[key] ELSE <<>>
        reqs   == Prune(stored, now - cfg.window)
    IN  /\ UNCHANGED <<buckets, fixedWindows>>
        /\ IF Len(reqs) >= cfg.requests
           THEN /\ slidingWindows' = MapPut(slidingWindows, key, reqs)
                /\ rlResult' = Outcome(key, 1, FALSE,
                                       CeilDiv(reqs[1] + cfg.window - now, 1000), 0)
                /\ UNCHANGED allowedLog
           ELSE /\ slidingWindows' = MapPut(slidingWindows, key, reqs \o <<now>>)
                /\ rlResult' = Outcome(key, 1, TRUE, 0, cfg.requests - (Len(reqs) + 1))
                /\ LogAllowed(key)

\* Math.floor(now / this.window) * this.window
WindowStartRounded(t) == ((2 * t + cfg.window) \div (2 * cfg.window)) * cfg.window

WindowStart(t) == (t \div cfg.window) * cfg.window

\* RateLimiter.cleanupFixedWindows: the window keys that survive
cleanupFixedWindows(m) == MapDelAll(m, {wk \in DOMAIN m : m[wk].resetTime <= now})

\* RateLimiter.fixedWindowCheck
fixedWindowCheck(key, cost) ==
    LET windowStart == WindowStart(now)
        windowKey   == WindowKey(key, windowStart)
        windows     == IF MapHas(fixedWindows, windowKey)
                       THEN fixedWindows
                       ELSE cleanupFixedWindows(
                                MapPut(fixedWindows, windowKey,
                                       [count |-> 0, resetTime |-> windowStart + cfg.window]))
        windowData  == windows[windowKey]
    IN  /\ UNCHANGED <<buckets, slidingWindows>>
        /\ IF windowData.count >= cfg.requests
           THEN /\ fixedWindows' = windows
                /\ rlResult' = Outcome(key, 1, FALSE,
                                       CeilDiv(windowData.resetTime - now, 1000), 0)
                /\ UNCHANGED allowedLog
           ELSE /\ fixedWindows' = MapPut(windows, windowKey,
                                          [windowData EXCEPT !.count = @ + 1])
                /\ rlResult' = Outcome(key, 1, TRUE, 0,
                                       cfg.requests - (windowData.count + 1))
                /\ LogAllowed(key)

\* the body of isAllowed: the switch over the strategy, run to its end within the call
Checked(key, cost) ==
    \/ strategy = TokenBucketStrategy /\ tokenBucketCheck(key, cost)
    \/ strategy = SlidingWindowStrategy /\ slidingWindowCheck(key, cost)
    \/ strategy = FixedWindowStrategy /\ fixedWindowCheck(key, cost)
    \/ /\ strategy \notin {TokenBucketStrategy, SlidingWindowStrategy, FixedWindowStrategy}
       /\ rlResult' = Outcome(key, cost, FALSE, 0, 0)
       /\ UNCHANGED <<buckets, slidingWindows, fixedWindows, allowedLog>>

\* RateLimiter.isAllowed(key, tokens = 1)
IsAllowed(key, cost) ==
    /\ nCalls < MaxCalls
    /\ nCalls' = nCalls + 1
    /\ UNCHANGED <<now, strategy, cfg, rlStatus, cbVars, cacheVars, monVars, clientVars>>
    /\ Checked(key, cost)

\* the wall clock moves on between two operations
Advance(t) ==
    /\ t > now
    /\ now' = t
    /\ UNCHANGED <<nCalls, rlVars, cbVars, cacheVars, monVars, clientVars>>

\* the state right after new RateLimiter(options)
RLConstructed(s) ==
    /\ strategy = s[1]
    /\ cfg = s[2]
    /\ buckets = EmptyMap
    /\ slidingWindows = EmptyMap
    /\ fixedWindows = EmptyMap
    /\ rlResult = NoResult
    /\ rlStatus = NoStatus
    /\ allowedLog = EmptyMap

InitRL ==
    /\ now = 0
    /\ nCalls = 0
    /\ \E s \in Setups : RLConstructed(s)
    /\ CBConstructed(DefaultOptions)
    /\ \E k \in EncryptionKeys : CacheConstructed(k)
    /\ MonConstructed
    /\ CallersIdle
    /\ values = <<>>

NextRL ==
    \/ \E key \in Keys, cost \in Costs : IsAllowed(key, cost)
    \/ \E t \in Instants(strategy) : Advance(t)

SpecRL == InitRL /\ [][NextRL]_vars

\* RateLimiter.reset
Reset(key) ==
    /\ nCalls < MaxCalls
    /\ nCalls' = nCalls + 1
    /\ buckets' = MapDelAll(buckets, {key})
    /\ slidingWindows' = MapDelAll(slidingWindows, {key})
    /\ fixedWindows' = MapDelAll(fixedWindows,
                           {windowKey \in DOMAIN fixedWindows :
                               StartsWith(windowKey, key \o <<":">>)})
    /\ rlResult' = [NoResult EXCEPT !.op = "reset", !.key = key, !.at = now]
    /\ allowedLog' = MapDelAll(allowedLog, {key})
    /\ UNCHANGED <<now, strategy, cfg, rlStatus, cbVars, cacheVars, monVars, clientVars>>

\* what getStatus returns
Status(key, fields) == [returned |-> TRUE, key |-> key, at |-> now, value |-> fields]

\* requests.filter(time => time > cutoff)
ActiveRequests(reqs, cutoff) == SelectSeq(reqs, LAMBDA time : time > cutoff)

\* RateLimiter.getStatus
GetStatus(key) ==
    /\ nCalls < MaxCalls
    /\ nCalls' = nCalls + 1
    /\ IF strategy = TokenBucketStrategy
       THEN IF ~MapHas(buckets, key)
            THEN /\ rlStatus' = Status(key, [strategy |-> TokenBucketStrategy,
                                             availableTokens |-> 0, capacity |-> cfg.burst,
                                             timeUntilRefill |-> 0])
                 /\ UNCHANGED buckets
            ELSE LET bucket == Refill(buckets[key]) IN
                 /\ buckets' = MapPut(buckets, key, bucket)
                 /\ rlStatus' = Status(key, [strategy |-> TokenBucketStrategy,
                                             availableTokens |-> bucket.tokens,
                                             capacity |-> cfg.burst,
                                             timeUntilRefill |-> GetTimeUntilRefill(bucket)])
       ELSE /\ UNCHANGED buckets
            /\ rlStatus' =
                  IF strategy = SlidingWindowStrategy
                  THEN IF ~MapHas(slidingWindows, key) THEN Status(key, JNull)
                       ELSE LET activeRequests ==
                                    ActiveRequests(slidingWindows[key], now - cfg.window)
                            IN  Status(key,
                                   [strategy |-> SlidingWindowStrategy,
                                    requestCount |-> Len(activeRequests),
                                    limit |-> cfg.requests,
                                    remainingRequests |-> cfg.requests - Len(activeRequests),
                                    resetTime |-> IF Len(activeRequests) > 0
                                                  THEN JNum(activeRequests[1] + cfg.window)
                                                  ELSE JNull])
                  ELSE IF strategy = FixedWindowStrategy
                  THEN LET windowStart == WindowStart(now)
                           windowKey == WindowKey(key, windowStart)
                       IN  IF ~MapHas(fixedWindows, windowKey)
                           THEN Status(key,
                                   [strategy |-> FixedWindowStrategy, requestCount |-> 0,
                                    limit |-> cfg.requests,
                                    remainingRequests |-> cfg.requests,
                                    resetTime |-> JNum(windowStart + cfg.window)])
                           ELSE Status(key,
                                   [strategy |-> FixedWindowStrategy,
                                    requestCount |-> fixedWindows[windowKey].count,
                                    limit |-> cfg.requests,
                                    remainingRequests |->
                                        cfg.requests - fixedWindows[windowKey].count,
                                    resetTime |-> JNum(fixedWindows[windowKey].resetTime)])
                  ELSE Status(key, JNull)
    /\ rlResult' = [NoResult EXCEPT !.op = "getStatus", !.key = key, !.at = now]
    /\ UNCHANGED <<now, strategy, cfg, slidingWindows, fixedWindows, allowedLog,
                   cbVars, cacheVars, monVars, clientVars>>

\* the limiter with all its operations
NextRLAdmin ==
    \/ \E key \in Keys : IsAllowed(key, 1)
    \/ \E key \in Keys : Reset(key)
    \/ \E key \in Keys : GetStatus(key)
    \/ \E t \in Instants(strategy) : Advance(t)

SpecRLAdmin == InitRL /\ [][NextRLAdmin]_vars

----------------------------------------------------------------------------
(* Rate limiter: properties *)

\* the admitted calls of the key of the last call, before that call
PriorLog ==
    LET L == IF MapHas(allowedLog, rlResult.key) THEN allowedLog[rlResult.key] ELSE <<>>
    IN  IF rlResult.allowed THEN SubSeq(L, 1, Len(L) - 1) ELSE L

\* how many instants of a sequence lie in [lo, hi]
CountIn(L, lo, hi) == Cardinality({i \in 1..Len(L) : lo <= L[i] /\ L[i] <= hi})

\* C1: under token-bucket every bucket keeps 0 <= tokens <= capacity, whatever the
\* costs passed to isAllowed and whatever time passes between the calls.
C1_TokensWithinCapacity ==
    \A k \in DOMAIN buckets : 0 <= buckets[k].tokens /\ buckets[k].tokens <= cfg.burst

\* C2: under sliding-window a call is admitted exactly when fewer than `requests`
\* admitted calls of its key lie in the last `window` ms (so the first `requests`
\* calls of a window pass and the next is rejected), no span of `window` ms holds
\* more than `requests` admitted calls of a key, and a call made more than
\* `window` ms after the oldest counted call is admitted.
C2_SlidingWindow ==
    strategy = SlidingWindowStrategy =>
        /\ \A k \in DOMAIN allowedLog : \A i \in 1..Len(allowedLog[k]) :
               CountIn(allowedLog[k], allowedLog[k][i], allowedLog[k][i] + cfg.window)
                   <= cfg.requests
        /\ rlResult.op = "isAllowed" =>
               /\ rlResult.allowed <=>
                      CountIn(PriorLog, rlResult.at - cfg.window, rlResult.at) < cfg.requests
               /\ Len(PriorLog) < cfg.requests => rlResult.allowed
               /\ (/\ Len(PriorLog) >= cfg.requests
                   /\ rlResult.at > PriorLog[Len(PriorLog) - cfg.requests + 1] + cfg.window)
                      => rlResult.allowed

\* a key used up its window, and a call more than `window` ms after its oldest call passed
C2_Witness ==
    /\ strategy = SlidingWindowStrategy
    /\ rlResult.op = "isAllowed" /\ rlResult.allowed
    /\ Len(PriorLog) = cfg.requests
    /\ PriorLog[cfg.requests] <= PriorLog[1] + cfg.window
    /\ rlResult.at > PriorLog[1] + cfg.window

\* C3: under fixed-window a call is admitted exactly when fewer than `requests`
\* admitted calls of its key have the same floor(t / window): calls share a counter
\* exactly when they fall in the same window, and the first call at or after the
\* boundary is counted from zero.
C3_FixedWindow ==
    (strategy = FixedWindowStrategy /\ rlResult.op = "isAllowed") =>
        (rlResult.allowed <=>
            Cardinality({i \in 1..Len(PriorLog) :
                            PriorLog[i] \div cfg.window = rlResult.at \div cfg.window})
                < cfg.requests)

\* a full window was followed by an admitted call in the next window
C3_Witness ==
    /\ strategy = FixedWindowStrategy
    /\ rlResult.op = "isAllowed" /\ rlResult.allowed
    /\ Len(PriorLog) >= cfg.requests
    /\ \A i \in 1..cfg.requests : PriorLog[i] \div cfg.window = 0
    /\ rlResult.at \div cfg.window = 1

\* isAllowed(key, 1) is the call after a rejected isAllowed(key, 1), with no call in between
RetryOf(key) ==
    /\ rlResult.op = "isAllowed"
    /\ ~rlResult.allowed
    /\ rlResult.key = key
    /\ rlResult.cost = 1
    /\ IsAllowed(key, 1)

\* C26: a token-bucket isAllowed(key, 1) made timeUntilRefill after a rejected
\* isAllowed(key, 1), with no other call on the key in between, is allowed.
C26_RetryAfterRefillAllowed ==
    [][\A key \in Keys :
          ( /\ strategy = TokenBucketStrategy
            /\ MapHas(buckets, key)
            /\ now = rlResult.at
                       + Max(0, RefillPeriod - (rlResult.at - buckets[key].lastRefill))
            /\ RetryOf(key) )
          => rlResult'.allowed]_vars

\* C27: a sliding-window isAllowed(key) made retryAfter seconds after a rejected
\* isAllowed(key), with no other call on the key in between, is allowed.
C27_RetryAfterWindowAllowed ==
    [][\A key \in Keys :
          ( /\ strategy = SlidingWindowStrategy
            /\ now = rlResult.at + rlResult.retryAfter * 1000
            /\ RetryOf(key) )
          => rlResult'.allowed]_vars

----------------------------------------------------------------------------
(* Circuit breaker: PesakitCircuitBreaker over the opossum breaker it creates *)

\* endpoint names the client protects
Endpoints == {"auth"}

\* length of one bucket of the rolling statistics (rollingCountTimeout / rollingCountBuckets)
BucketInterval == 1000

\* what the protected work can reject with: {code, response: {status}}
NoError == [code |-> "none", status |-> 0]

WorkErrors ==
    { [code |-> "ECONNRESET", status |-> 0],
      [code |-> "none", status |-> 401] }

\* the options the breakers are explored with: the default thresholds on a short
\* clock, and a low volume threshold with a call timeout longer than the reset timeout
CbSetups ==
    { [timeout |-> 2000,
       errorThresholdPercentage |-> DefaultOptions.errorThresholdPercentage,
       resetTimeout |-> 3000,
       volumeThreshold |-> DefaultOptions.volumeThreshold, enabled |-> TRUE],
      [timeout |-> 2000, errorThresholdPercentage |-> 50, resetTimeout |-> 1000,
       volumeThreshold |-> 3, enabled |-> TRUE],
      [timeout |-> 2000, errorThresholdPercentage |-> 50, resetTimeout |-> 1000,
       volumeThreshold |-> 2, enabled |-> FALSE] }

\* PesakitCircuitBreaker.isRetryableError
IsRetryableError(error) ==
    \/ error.code \in {"ECONNRESET", "ENOTFOUND", "ECONNREFUSED", "ETIMEDOUT"}
    \/ error.status >= 500 \/ error.status = 429 \/ error.status = 408
    \/ error.code = "RATE_LIMIT_ERROR"

\* an error on its way to the caller; nextAttemptIn is nextAttempt - Date.now()
Thrown(kind, cause, nextAttemptIn) ==
    [kind |-> kind, cause |-> cause, nextAttemptIn |-> nextAttemptIn]

\* PesakitCircuitBreaker.executeRequest: what it throws when requestFn rejects with error
ExecuteRequestThrows(error) ==
    IF IsRetryableError(error) THEN Thrown("NetworkError", error, 0)
    ELSE Thrown("original", error, 0)

\* one bucket of the rolling statistics (the counters the breaker decides on)
EmptyBucket == [fires |-> 0, failures |-> 0, successes |-> 0]

\* new CircuitBreaker(action, options): CLOSED, empty rolling window, no reset timer.
\* Timers are kept as the time left until they fire (-1: not set).  onlyRetryable
\* is history: every failure counted so far was a classifier-positive error of the work.
NewBreaker ==
    [state |-> "CLOSED", pendingClose |-> FALSE,
     window |-> [i \in 1..RollingCountBuckets |-> EmptyBucket],
     resetIn |-> -1, onlyRetryable |-> TRUE]

\* the breaker of an endpoint as getBreaker returns it
GetBreaker(endpoint) == IF MapHas(breakers, endpoint) THEN breakers[endpoint] ELSE NewBreaker

\* an event counted in the current bucket
Bump(b, f) == [b EXCEPT !.window[1][f] = @ + 1]

RECURSIVE SumField(_, _, _)
SumField(w, f, i) == IF i = 0 THEN 0 ELSE w[i][f] + SumField(w, f, i - 1)

\* breaker.stats: the sums over the rolling window
Stats(b) ==
    [f \in {"fires", "failures", "successes"} |->
        SumField(b.window, f, Len(b.window))]

\* breaker.open(): starts the reset timer
Open(b) ==
    IF b.state # "OPEN"
    THEN [b EXCEPT !.state = "OPEN", !.pendingClose = FALSE,
                   !.resetIn = cbOpts.resetTimeout]
    ELSE b

\* breaker.close(): clears the reset timer
Close(b) ==
    IF b.state # "CLOSED"
    THEN [b EXCEPT !.state = "CLOSED", !.pendingClose = FALSE, !.resetIn = -1]
    ELSE b

\* the breaker once a call has failed: counted, then opened past the thresholds
Fail(b) ==
    LET c  == Bump(b, "failures")
        st == Stats(c)
    IN  IF st.fires < cbOpts.volumeThreshold /\ c.state # "HALF_OPEN" THEN c
        ELSE IF st.failures * 100 > cbOpts.errorThresholdPercentage * st.fires
                \/ c.state = "HALF_OPEN"
             THEN Open(c)
             ELSE c

SucceedCloses(b) == Close(Bump(b, "successes"))

\* the breaker once a call has succeeded: counted, and closed when half open
Succeed(b) ==
    LET c == Bump(b, "successes") IN IF c.state = "HALF_OPEN" THEN Close(c) ELSE c

\* PesakitCircuitBreaker.protect, catch block: what reaches the caller
ProtectCatchRethrow(b, thrown) == thrown

ProtectCatch(b, thrown) ==
    IF b.state = "OPEN"
    THEN Thrown("NetworkErrorOpen", NoError, cbOpts.resetTimeout)
    ELSE thrown

Completed(endpoint, invoked, thrown) ==
    [op |-> "protect", endpoint |-> endpoint, workInvoked |-> invoked, kind |-> thrown.kind,
     cause |-> thrown.cause, nextAttemptIn |-> thrown.nextAttemptIn]

\* a call whose work has been invoked: the time left until the breaker times it out,
\* whether it is the trial of a half-open breaker, whether it bypasses the breaker
Call(endpoint, timeLeft, trial, direct) ==
    [endpoint |-> endpoint, timeLeft |-> timeLeft, trial |-> trial, direct |-> direct]

DisabledNever(options) == FALSE

\* !this.options.enabled
Disabled(options) == ~options.enabled

\* PesakitCircuitBreaker.protect up to the point where it awaits: either the call
\* is refused at once, or requestFn is invoked and the call is in flight
ProtectStep(endpoint) ==
    /\ IF Disabled(cbOpts)
       THEN /\ BagCardinality(inflight) < MaxInflight
            /\ inflight' = inflight (+) SetToBag({Call(endpoint, -1, FALSE, TRUE)})
            /\ UNCHANGED <<breakers, cbResult>>
       ELSE LET b == Bump(GetBreaker(endpoint), "fires") IN
            IF b.state # "CLOSED" /\ ~b.pendingClose
            THEN /\ breakers' = MapPut(breakers, endpoint, b)
                 /\ cbResult' = Completed(endpoint, FALSE,
                                          ProtectCatch(b, Thrown("EOPENBREAKER", NoError, 0)))
                 /\ UNCHANGED inflight
            ELSE /\ BagCardinality(inflight) < MaxInflight
                 /\ breakers' = MapPut(breakers, endpoint, [b EXCEPT !.pendingClose = FALSE])
                 /\ inflight' = inflight (+)
                        SetToBag({Call(endpoint, cbOpts.timeout,
                                       b.state = "HALF_OPEN", FALSE)})
                 /\ UNCHANGED cbResult

Protect(endpoint) ==
    /\ nCalls < cbOpts.volumeThreshold + ExtraFires
    /\ nCalls' = nCalls + 1
    /\ UNCHANGED <<now, cbOpts, rlVars, cacheVars, monVars, clientVars>>
    /\ ProtectStep(endpoint)

\* requestFn settles (resolves, or rejects with error) and protect returns or throws
SettleStep(c, ok, error) ==
    /\ BagIn(c, inflight)
    /\ inflight' = inflight (-) SetToBag({c})
    /\ IF c.direct
       THEN /\ cbResult' = Completed(c.endpoint, TRUE,
                                     IF ok THEN Thrown("value", NoError, 0)
                                     ELSE Thrown("original", error, 0))
            /\ UNCHANGED breakers
       ELSE LET b == IF ok THEN Succeed(breakers[c.endpoint])
                     ELSE [Fail(breakers[c.endpoint]) EXCEPT
                              !.onlyRetryable = @ /\ IsRetryableError(error)] IN
            /\ breakers' = MapPut(breakers, c.endpoint, b)
            /\ cbResult' = Completed(c.endpoint, TRUE,
                                     IF ok THEN Thrown("value", NoError, 0)
                                     ELSE ProtectCatch(b, ExecuteRequestThrows(error)))

Settle(c, ok, error) ==
    /\ SettleStep(c, ok, error)
    /\ UNCHANGED <<now, nCalls, cbOpts, rlVars, cacheVars, monVars, clientVars>>

\* the breaker's own timeout of a call fires first: the call fails, its late result is ignored
TimeoutStep(c) ==
    /\ BagIn(c, inflight)
    /\ ~c.direct
    /\ c.timeLeft <= 0
    /\ inflight' = inflight (-) SetToBag({c})
    /\ LET b == [Fail(breakers[c.endpoint]) EXCEPT !.onlyRetryable = FALSE] IN
       /\ breakers' = MapPut(breakers, c.endpoint, b)
       /\ cbResult' = Completed(c.endpoint, TRUE,
                                ProtectCatch(b, Thrown("ETIMEDOUT", NoError, 0)))

Timeout(c) ==
    /\ TimeoutStep(c)
    /\ UNCHANGED <<now, nCalls, cbOpts, rlVars, cacheVars, monVars, clientVars>>

\* the reset timer of an open breaker fires
HalfOpenStep(endpoint) ==
    /\ MapHas(breakers, endpoint)
    /\ breakers[endpoint].state = "OPEN"
    /\ breakers[endpoint].resetIn = 0
    /\ breakers' = MapPut(breakers, endpoint,
                          [breakers[endpoint] EXCEPT !.state = "HALF_OPEN",
                                                     !.pendingClose = TRUE,
                                                     !.resetIn = -1])
    /\ UNCHANGED <<inflight, cbResult>>

HalfOpen(endpoint) ==
    /\ HalfOpenStep(endpoint)
    /\ UNCHANGED <<now, nCalls, cbOpts, rlVars, cacheVars, monVars, clientVars>>

TimerDue ==
    \/ \E e \in DOMAIN breakers : breakers[e].resetIn = 0
    \/ \E c \in BagToSet(inflight) : ~c.direct /\ c.timeLeft = 0

\* a timer after one more bucket interval
Later(t) == IF t > 0 THEN Max(0, t - BucketInterval) ELSE t

\* the calls in flight one bucket interval later
Aged(calls) ==
    LET old(c) == {d \in BagToSet(calls) : [d EXCEPT !.timeLeft = Later(@)] = c}
        S == {[d EXCEPT !.timeLeft = Later(@)] : d \in BagToSet(calls)}
    IN  IF S = {} THEN EmptyBag
        ELSE [c \in S |-> CopiesIn(CHOOSE d \in old(c) : TRUE, calls)]

\* one bucket interval passes: the timers run down and every breaker's rolling
\* window drops its oldest bucket
TickStep ==
    /\ ~TimerDue
    /\ breakers' = [e \in DOMAIN breakers |->
                       [breakers[e] EXCEPT
                           !.resetIn = Later(@),
                           !.window = <<EmptyBucket>> \o SubSeq(@, 1, Len(@) - 1)]]
    /\ inflight' = Aged(inflight)
    /\ UNCHANGED cbResult

Tick ==
    /\ \/ inflight # EmptyBag
       \/ \E e \in DOMAIN breakers :
              breakers[e].resetIn > 0 \/ Stats(breakers[e]) # Stats(NewBreaker)
    /\ TickStep
    /\ UNCHANGED <<now, nCalls, cbOpts, rlVars, cacheVars, monVars, clientVars>>

InitCB ==
    /\ now = 0
    /\ nCalls = 0
    /\ \E o \in CbSetups : CBConstructed(o)
    /\ RLConstructed(<<TokenBucketStrategy, ClientConfig>>)
    /\ \E k \in EncryptionKeys : CacheConstructed(k)
    /\ MonConstructed
    /\ CallersIdle
    /\ values = <<>>

NextCB ==
    \/ \E e \in Endpoints : Protect(e)
    \/ \E c \in BagToSet(inflight) : Settle(c, TRUE, NoError)
    \/ \E c \in BagToSet(inflight), error \in WorkErrors : Settle(c, FALSE, error)
    \/ \E c \in BagToSet(inflight) : Timeout(c)
    \/ \E e \in Endpoints : HalfOpen(e)
    \/ Tick

SpecCB == InitCB /\ [][NextCB]_vars

----------------------------------------------------------------------------
(* Circuit breaker: properties *)

\* this step is a protect call on the endpoint
Fired(e) ==
    /\ MapHas(breakers', e)
    /\ Stats(breakers'[e]).fires = Stats(GetBreaker(e)).fires + 1

\* the breaker of the endpoint is in the given state before this step
InState(e, st) == MapHas(breakers, e) /\ breakers[e].state = st

\* C4: while the breaker of an endpoint is OPEN, every protect call on it rejects with
\* the NetworkError that carries state 'OPEN' and a nextAttempt, and the work is not invoked.
C4_OpenFailsFast ==
    [][\A e \in Endpoints :
          (InState(e, "OPEN") /\ Fired(e)) =>
              /\ cbResult'.op = "protect" /\ cbResult'.endpoint = e
              /\ cbResult'.kind = "NetworkErrorOpen"
              /\ cbResult'.nextAttemptIn = cbOpts.resetTimeout
              /\ ~cbResult'.workInvoked
              /\ inflight' = inflight
              /\ breakers'[e].state = "OPEN"]_vars

\* a protect call was refused by an open breaker
C4_Witness ==
    /\ cbResult.kind = "NetworkErrorOpen" /\ ~cbResult.workInvoked
    /\ InState(cbResult.endpoint, "OPEN")
    /\ Stats(breakers[cbResult.endpoint]).fires > cbOpts.volumeThreshold

\* C5: an error of the work that the classifier marks non-retryable never affects the
\* breaker: it does not count as a failure, does not change the breaker's state, and
\* reaches the caller of protect as the original error.
C5_NonRetryableIgnored ==
    [][\A c \in BagToSet(inflight), error \in WorkErrors :
          (~c.direct /\ ~IsRetryableError(error) /\ Settle(c, FALSE, error)) =>
              /\ breakers'[c.endpoint].state = breakers[c.endpoint].state
              /\ Stats(breakers'[c.endpoint]).failures = Stats(breakers[c.endpoint]).failures
              /\ cbResult'.kind = "original" /\ cbResult'.cause = error]_vars

\* ten calls were made inside the rolling window, six failed with classifier-positive
\* errors and the others succeeded or are still in flight
TenCallsSixFailed(b) ==
    /\ cbOpts.volumeThreshold = 10
    /\ nCalls' = 10
    /\ Stats(b).fires = 10 /\ Stats(b).failures = 6
    /\ b.onlyRetryable

\* C6 as stated: once the 10 calls with 6 classifier-positive failures have all
\* completed, in whatever order, the breaker is OPEN.
C6_OpensInAnyOrder ==
    [][\A e \in Endpoints :
          (/\ MapHas(breakers, e)
           /\ inflight # EmptyBag /\ inflight' = EmptyBag
           /\ TenCallsSixFailed(breakers'[e])
           /\ Stats(breakers'[e]).successes = 4)
              => breakers'[e].state = "OPEN"]_vars

\* C6 as amended: the breaker is OPEN as soon as the sixth failure is reported with all
\* 10 calls started, and a protect call made then is refused without invoking the work.
C6_OpensOnSixthFailureOfTen ==
    [][\A e \in Endpoints :
          /\ (/\ MapHas(breakers, e)
              /\ BagCardinality(inflight') < BagCardinality(inflight)
              /\ Stats(breakers'[e]).failures = Stats(breakers[e]).failures + 1
              /\ TenCallsSixFailed(breakers'[e]))
                 => breakers'[e].state = "OPEN"
          /\ (/\ InState(e, "OPEN") /\ Fired(e)
              /\ cbOpts.volumeThreshold = 10 /\ nCalls = 10
              /\ Stats(breakers[e]).failures = 6)
                 => ~cbResult'.workInvoked /\ inflight' = inflight]_vars

\* the breaker opened on the sixth failure of ten calls and refused the eleventh
C6_Witness ==
    /\ cbOpts.volumeThreshold = 10 /\ nCalls = 11
    /\ InState("auth", "OPEN")
    /\ Stats(breakers["auth"]).fires = 11 /\ Stats(breakers["auth"]).failures = 6
    /\ Stats(breakers["auth"]).successes = 4
    /\ breakers["auth"].onlyRetryable
    /\ cbResult.kind = "NetworkErrorOpen" /\ ~cbResult.workInvoked

\* C7: an OPEN breaker leaves that state only when its reset timeout has elapsed, and
\* then becomes HALF_OPEN; the next protect call invokes the work; when that trial
\* succeeds the breaker is CLOSED, and when it fails the breaker is OPEN again with a
\* full resetTimeout to run.
C7_TrialDecides ==
    [][/\ \A e \in Endpoints :
             /\ (InState(e, "OPEN") /\ breakers'[e].state # "OPEN")
                    => breakers[e].resetIn = 0 /\ breakers'[e].state = "HALF_OPEN"
             /\ (InState(e, "HALF_OPEN") /\ breakers[e].pendingClose /\ Fired(e))
                    => BagCardinality(inflight') = BagCardinality(inflight) + 1
       /\ \A c \in BagToSet(inflight) :
             c.trial =>
                /\ Settle(c, TRUE, NoError) => breakers'[c.endpoint].state = "CLOSED"
                /\ \A error \in WorkErrors :
                      Settle(c, FALSE, error) =>
                          /\ breakers'[c.endpoint].state = "OPEN"
                          /\ breakers'[c.endpoint].resetIn = cbOpts.resetTimeout]_vars

\* C21: with enabled = false every protect call invokes the work, once, and hands its
\* value or its error to the caller as it is; no breaker is ever created, and no call
\* is refused, whatever failed before.
C21_DisabledIsDirect ==
    [][~cbOpts.enabled =>
          /\ breakers' = EmptyMap
          /\ nCalls' = nCalls + 1 =>
                /\ BagCardinality(inflight') = BagCardinality(inflight) + 1
                /\ \A c \in BagToSet(inflight') : c.direct
                /\ cbResult' = cbResult
          /\ \A c \in BagToSet(inflight) :
                /\ Settle(c, TRUE, NoError) =>
                      cbResult'.workInvoked /\ cbResult'.kind = "value"
                /\ \A error \in WorkErrors :
                      Settle(c, FALSE, error) =>
                          /\ cbResult'.workInvoked
                          /\ cbResult'.kind = "original" /\ cbResult'.cause = error
                /\ ~ENABLED Timeout(c)]_vars

\* with enabled = false a call past the volume threshold had its work invoked and
\* failed with the error of the work
C21_Witness ==
    /\ ~cbOpts.enabled
    /\ nCalls > cbOpts.volumeThreshold
    /\ inflight = EmptyBag
    /\ cbResult.workInvoked
    /\ cbResult.kind = "original" /\ cbResult.cause.code = "ECONNRESET"
    /\ breakers = EmptyMap

\* C28: the NetworkError with state 'OPEN' reaches the caller only when the work was
\* not invoked; a call whose work was invoked and threw gets the failure of the work.
C28_OpenErrorOnlyWithoutWork ==
    cbResult.kind = "NetworkErrorOpen" => ~cbResult.workInvoked

----------------------------------------------------------------------------
(* Cache: the operations of SecureCache and TokenCache  (src/lib/cache.js) *)

CacheKeys == { <<"a">>, <<"b">> }

\* keys other than the cache's own
WrongKeys == {5}

IVs == { [i \in 1..BlockSize |-> 0], [i \in 1..BlockSize |-> (57 * i) % Bytes] }

Values ==
    { JStr(<<"a", "\"", ":", "\\">>),
      JObj(<<<<"k">>, <<>>>>,
           <<JArr(<<JBool(TRUE), JNull, JNum(-10), JObj(<<>>, <<>>)>>), JStr(<<>>)>>) }

Ttls == { NullTtl, Seconds(1) }

CacheInstants == {1000, 1001}

\* The stored entry of this.cache.set(key, value, ttl): ttl 0 is no expiry, a
\* null ttl the standard one; t is the time of expiry in ms.
Wrap(value, ttl) ==
    LET s == IF ttl.given THEN ttl.s ELSE StdTTL IN
    [t |-> IF s = 0 THEN 0 ELSE now + s * 1000, v |-> value]

AliveBefore(entry) == ~(entry.t # 0 /\ entry.t <= now)

\* this.cache's test of an entry on access: it is stale once t has passed
Alive(entry) == ~(entry.t # 0 /\ entry.t < now)

MapDel(m, k) == MapDelAll(m, {k})

\* this.cache.get(key): a stale entry is deleted and reads as undefined
NodeGet(m, key) ==
    IF MapHas(m, key) /\ Alive(m[key]) THEN [data |-> m, found |-> TRUE, v |-> m[key].v]
    ELSE [data |-> MapDel(m, key), found |-> FALSE, v |-> <<>>]

\* SecureCache.set, with the bytes crypto.randomBytes returned
CacheSet(m, key, value, ttl, iv) ==
    MapPut(m, key, Wrap(Encrypt(encryptionKey, iv, JSONStringify(value)), ttl))

\* the stored record can be neither decrypted nor deserialized
Unreadable(record) ==
    LET d == Decrypt(encryptionKey, record) IN ~d.ok \/ ~JSONParse(d.text).ok

CacheGetKeep(m, key) ==
    LET g == NodeGet(m, key) IN
    IF ~g.found \/ Unreadable(g.v) THEN [data |-> g.data, value |-> JUndefined]
    ELSE [data |-> g.data, value |-> JSONParse(Decrypt(encryptionKey, g.v).text).v]

\* SecureCache.get: the cache after the call and the value returned
CacheGet(m, key) ==
    LET g == NodeGet(m, key) IN
    IF ~g.found THEN [data |-> g.data, value |-> JUndefined]
    ELSE IF Unreadable(g.v) THEN [data |-> MapDel(g.data, key), value |-> JUndefined]
    ELSE [data |-> g.data, value |-> JSONParse(Decrypt(encryptionKey, g.v).text).v]

Returned(op, key, value) ==
    [op |-> op, key |-> key, threw |-> FALSE, value |-> value,
     unreadable |-> FALSE, why |-> ""]

Set(key, value, ttl, iv) ==
    /\ nCalls < MaxCacheOps
    /\ nCalls' = nCalls + 1
    /\ data' = CacheSet(data, key, value, ttl, iv)
    /\ cacheResult' = Returned("set", key, JBool(TRUE))
    /\ lastSet' = MapPut(lastSet, key, [v |-> value, at |-> now, ttl |-> ttl])
    /\ UNCHANGED <<now, encryptionKey, cachedUnder, invalidated, rlVars, cbVars, monVars, clientVars>>

Get(key) ==
    /\ nCalls < MaxCacheOps
    /\ nCalls' = nCalls + 1
    /\ \E r \in {CacheGet(data, key)} :
       /\ data' = r.data
       /\ cacheResult' = [Returned("get", key, r.value) EXCEPT
                              !.unreadable = MapHas(data, key) /\ Alive(data[key])
                                             /\ Unreadable(data[key].v)]
    /\ UNCHANGED <<now, encryptionKey, lastSet, cachedUnder, invalidated, rlVars, cbVars, monVars, clientVars>>

\* SecureCache.has
Has(key) ==
    /\ nCalls < MaxCacheOps
    /\ nCalls' = nCalls + 1
    /\ LET g == NodeGet(data, key) IN
       /\ data' = g.data
       /\ cacheResult' = Returned("has", key, JBool(g.found))
    /\ UNCHANGED <<now, encryptionKey, lastSet, cachedUnder, invalidated, rlVars, cbVars, monVars, clientVars>>

\* SecureCache.del
Del(key) ==
    /\ nCalls < MaxCacheOps
    /\ nCalls' = nCalls + 1
    /\ data' = MapDel(data, key)
    /\ cacheResult' = Returned("del", key, JNum(IF MapHas(data, key) THEN 1 ELSE 0))
    /\ lastSet' = MapDel(lastSet, key)
    /\ UNCHANGED <<now, encryptionKey, cachedUnder, invalidated, rlVars, cbVars, monVars, clientVars>>

\* What a stored record can be turned into behind the cache's back: emptied, cut
\* short, or replaced by a record written with another key or by one of a text
\* that is no JSON.
Tampered(record) ==
    { <<>>,
      SubSeq(record, 1, Len(record) - 2),
      Encrypt(encryptionKey, [i \in 1..BlockSize |-> 0], <<"{", "1">>) }
    \cup { Encrypt(k, [i \in 1..BlockSize |-> 0], <<"1">>) : k \in WrongKeys }

\* The environment corrupts the stored record of a key (a record as set wrote it).
Corrupt(key, record) ==
    /\ MapHas(data, key) /\ MapHas(lastSet, key)
    /\ record \in Tampered(data[key].v)
    /\ data' = [data EXCEPT ![key].v = record]
    /\ lastSet' = MapDel(lastSet, key)
    /\ UNCHANGED <<now, nCalls, encryptionKey, cacheResult, cachedUnder, invalidated, rlVars, cbVars, monVars, clientVars>>

\* Time passes (Date.now()).
Elapse(t) ==
    /\ t > now
    /\ now' = t
    /\ UNCHANGED <<nCalls, cacheVars, rlVars, cbVars, monVars, clientVars>>

InitCache ==
    /\ now = 0
    /\ nCalls = 0
    /\ \E k \in EncryptionKeys : CacheConstructed(k)
    /\ RLConstructed(<<TokenBucketStrategy, ClientConfig>>)
    /\ CBConstructed(DefaultOptions)
    /\ MonConstructed
    /\ CallersIdle
    /\ values = <<>>

NextCache ==
    \/ \E key \in CacheKeys, value \in Values, ttl \in Ttls, iv \in IVs : Set(key, value, ttl, iv)
    \/ \E key \in CacheKeys : Get(key)
    \/ \E key \in CacheKeys : Has(key)
    \/ \E key \in CacheKeys : Del(key)
    \/ \E key \in CacheKeys : \E record \in Tampered(IF MapHas(data, key) THEN data[key].v ELSE <<":">>) :
          Corrupt(key, record)
    \/ \E t \in CacheInstants : Elapse(t)

SpecCache == InitCache /\ [][NextCache]_vars

\* The periodic check of this.cache, every checkperiod seconds from the construction
\* on: it deletes the stale entries. A timer runs at or after the time it is due.
Sweep ==
    /\ now >= CheckPeriod * 1000
    /\ data' = MapDelAll(data, {k \in DOMAIN data : ~Alive(data[k])})
    /\ UNCHANGED <<now, nCalls, encryptionKey, cacheResult, lastSet, cachedUnder,
                   invalidated, rlVars, cbVars, monVars, clientVars>>

\* Entries and their time to live: the writes, the reads, the periodic check and the
\* clock around the ends of the explicit and of the standard TTL.
ExpiryTtls == { NullTtl, Seconds(1), Seconds(0) }

ExpiryInstants == {1000, 1001, 600000, 3300000, 3300001}

NextExpiry ==
    \/ \E key \in CacheKeys, ttl \in ExpiryTtls :
          Set(key, JStr(<<"v">>), ttl, [i \in 1..BlockSize |-> 0])
    \/ \E key \in CacheKeys : Get(key)
    \/ Sweep
    \/ \E t \in ExpiryInstants : Elapse(t)

SpecExpiry == InitCache /\ [][NextExpiry]_vars

----------------------------------------------------------------------------
(* Token cache *)

ConsumerKeys == { <<"A">>, <<"B">>, <<"C">> }

Tokens == { <<"t", "1">> }

ExpiresIns == {3600, 300}

TokenInstants == {100000, 300000, 3300001}

\* crypto.createHash('sha256').update(consumerKey).digest('hex').  SHA-256 maps
\* all strings to 256 bits, so distinct consumer keys can have one digest; here
\* three consumer keys have two digests.
HashConsumerKey(consumerKey) ==
    IF consumerKey = <<"C">> THEN <<"e", "2">> ELSE <<"d", "1">>

\* TokenCache.getTokenKey
GetTokenKey(consumerKey) ==
    <<"t", "o", "k", "e", "n", ":">> \o HashConsumerKey(consumerKey)

\* the tokenData of setToken
TokenData(consumerKey, token, expiresIn) ==
    JObj(<< <<"t", "o", "k", "e", "n">>,
            <<"i", "s", "s", "u", "e", "d", "A", "t">>,
            <<"e", "x", "p", "i", "r", "e", "s", "A", "t">>,
            <<"c", "o", "n", "s", "u", "m", "e", "r", "K", "e", "y">> >>,
         << JStr(token), JNum(now), JNum(now + expiresIn * 1000),
            JStr(HashConsumerKey(consumerKey)) >>)

TokenTtlNoFloor(expiresIn) == expiresIn - 300

\* the ttl of setToken, in seconds
TokenTtl(expiresIn) == Max(300, expiresIn - 300)

\* TokenCache.setToken
SetTokenStep(consumerKey, token, expiresIn, iv) ==
    /\ \E key \in {GetTokenKey(consumerKey)} :
       \E tokenData \in {TokenData(consumerKey, token, expiresIn)} :
       LET ttl == Seconds(TokenTtl(expiresIn))
       IN  /\ data' = CacheSet(data, key, tokenData, ttl, iv)
           /\ lastSet' = MapPut(lastSet, key, [v |-> tokenData, at |-> now, ttl |-> ttl])
    /\ cacheResult' = Returned("setToken", consumerKey, JBool(TRUE))
    /\ cachedUnder' = cachedUnder \cup {<<consumerKey, token>>}
    /\ invalidated' = {c \in invalidated : GetTokenKey(c) # GetTokenKey(consumerKey)}

SetToken(consumerKey, token, expiresIn, iv) ==
    /\ nCalls < MaxCacheOps
    /\ nCalls' = nCalls + 1
    /\ SetTokenStep(consumerKey, token, expiresIn, iv)
    /\ UNCHANGED <<now, encryptionKey, rlVars, cbVars, monVars, clientVars>>

\* Date.now() >= v of JavaScript, for a number or a missing value
NowAfter(v) == (v.t = "number" /\ now > v.n) \/ v.t = "null"

NowAtLeast(v) == (v.t = "number" /\ now >= v.n) \/ v.t = "null"

\* TokenCache.getToken
GotToken(consumerKey) ==
    /\ \E key \in {GetTokenKey(consumerKey)} : \E r \in {CacheGet(data, key)} :
       LET tokenData == r.value
       IN  IF Falsy(tokenData)
           THEN /\ data' = r.data
                /\ lastSet' = lastSet
                /\ cacheResult' = Returned("getToken", consumerKey, JNull)
           ELSE IF NowAtLeast(Field(tokenData, <<"e", "x", "p", "i", "r", "e", "s", "A", "t">>))
           THEN /\ data' = MapDel(r.data, key)
                /\ lastSet' = MapDel(lastSet, key)
                /\ cacheResult' = [Returned("getToken", consumerKey, JNull) EXCEPT
                                       !.why = "expired"]
           ELSE IF Field(tokenData, <<"c", "o", "n", "s", "u", "m", "e", "r", "K", "e", "y">>)
                      # JStr(HashConsumerKey(consumerKey))
           THEN /\ data' = MapDel(r.data, key)
                /\ lastSet' = MapDel(lastSet, key)
                /\ cacheResult' = [Returned("getToken", consumerKey, JNull) EXCEPT
                                       !.why = "mismatch"]
           ELSE /\ data' = r.data
                /\ lastSet' = lastSet
                /\ cacheResult' = Returned("getToken", consumerKey,
                                           Field(tokenData, <<"t", "o", "k", "e", "n">>))

GetToken(consumerKey) ==
    /\ nCalls < MaxCacheOps
    /\ nCalls' = nCalls + 1
    /\ GotToken(consumerKey)
    /\ UNCHANGED <<now, encryptionKey, cachedUnder, invalidated, rlVars, cbVars, monVars, clientVars>>

InvalidatedNothing(m, consumerKey) == m

\* this.del(this.getTokenKey(consumerKey))
Invalidated(m, consumerKey) == MapDel(m, GetTokenKey(consumerKey))

\* TokenCache.invalidateToken
InvalidateToken(consumerKey) ==
    /\ nCalls < MaxCacheOps
    /\ nCalls' = nCalls + 1
    /\ data' = Invalidated(data, consumerKey)
    /\ lastSet' = MapDel(lastSet, GetTokenKey(consumerKey))
    /\ cacheResult' = Returned("invalidateToken", consumerKey, JUndefined)
    /\ invalidated' = invalidated \cup {consumerKey}
    /\ UNCHANGED <<now, encryptionKey, cachedUnder, rlVars, cbVars, monVars, clientVars>>

NextTokens ==
    \/ \E consumerKey \in ConsumerKeys, token \in Tokens, expiresIn \in ExpiresIns :
          \E iv \in {[i \in 1..BlockSize |-> (57 * i) % Bytes]} :
             SetToken(consumerKey, token, expiresIn, iv)
    \/ \E consumerKey \in ConsumerKeys : GetToken(consumerKey)
    \/ \E consumerKey \in ConsumerKeys : InvalidateToken(consumerKey)
    \/ \E consumerKey \in ConsumerKeys, other \in ConsumerKeys :
          /\ HashConsumerKey(other) # HashConsumerKey(consumerKey)
          /\ Set(GetTokenKey(consumerKey), TokenData(other, <<"t", "2">>, 3600), NullTtl,
                 [i \in 1..BlockSize |-> 0])
    \/ Sweep
    \/ \E t \in TokenInstants : Elapse(t)

SpecTokens == InitCache /\ [][NextTokens]_vars

----------------------------------------------------------------------------
(* Cache: properties *)

\* the entry written by w has not yet lived for its ttl (0: it never expires)
BeforeTtlElapses(w) ==
    LET s == IF w.ttl.given THEN w.ttl.s ELSE StdTTL IN
    s = 0 \/ now - w.at < s * 1000

\* C8: a get(k) made before the TTL of the last set(k, v) has elapsed, with no write or
\* delete of k since that set, returns a value deep-equal to v, whatever was written
\* under other keys in between.
C8_RoundTrip ==
    \A k \in DOMAIN lastSet :
        (cacheResult.op = "get" /\ cacheResult.key = k /\ BeforeTtlElapses(lastSet[k]))
            => cacheResult.value = lastSet[k].v

\* a structured value was read back after time had passed and another key was written
C8_Witness ==
    /\ cacheResult.op = "get" /\ cacheResult.value.t = "object"
    /\ now > 0
    /\ \E k \in DOMAIN lastSet, o \in DOMAIN lastSet :
          /\ k = cacheResult.key /\ o # k
          /\ cacheResult.value = lastSet[k].v
          /\ lastSet[k].at = 0 /\ lastSet[o].at > 0

\* C9: when the stored record of a key can be neither decrypted nor deserialized,
\* get(key) returns undefined without throwing and removes the key, and every other
\* key keeps its entry.
C9_UnreadablePurged ==
    [][\A k \in CacheKeys :
          (/\ cacheResult'.op = "get" /\ cacheResult'.key = k /\ nCalls' = nCalls + 1
           /\ MapHas(data, k) /\ Alive(data[k]) /\ Unreadable(data[k].v))
              => /\ cacheResult'.value = JUndefined /\ ~cacheResult'.threw
                 /\ ~MapHas(data', k)
                 /\ DOMAIN data' = DOMAIN data \ {k}
                 /\ \A o \in DOMAIN data' : data'[o] = data[o]]_vars

\* a get met an unreadable record while another key was stored
C9_Witness ==
    /\ cacheResult.op = "get" /\ cacheResult.unreadable
    /\ cacheResult.value = JUndefined
    /\ ~MapHas(data, cacheResult.key)
    /\ DOMAIN data # {}

\* C10: getToken(B) returns only a token that setToken cached under the consumer key B
\* itself, also when another consumer key derives the same cache key.
C10_TokenBoundToConsumerKey ==
    (cacheResult.op = "getToken" /\ cacheResult.value.t = "string")
        => <<cacheResult.key, cacheResult.value.s>> \in cachedUnder

\* the seconds an entry written with the ttl lives: the standard TTL when none is given
TtlSeconds(w) == IF w.ttl.given THEN w.ttl.s ELSE StdTTL

\* this step is a call get(key)
GetStep(key) ==
    cacheResult'.op = "get" /\ cacheResult'.key = key /\ nCalls' = nCalls + 1

\* C30: get(key) returns the entry written by set(key, value, ttl) while less than ttl
\* seconds (the standard TTL when none is given) have passed since the write; from
\* then on it returns undefined and the entry is gone after the read.
C30_ReturnedOnlyBeforeTtl ==
    [][\A key \in DOMAIN lastSet :
          GetStep(key) =>
              LET w == lastSet[key]
              IN  IF now - w.at < TtlSeconds(w) * 1000
                  THEN cacheResult'.value = w.v
                  ELSE cacheResult'.value = JUndefined /\ ~MapHas(data', key)]_vars

\* C30, amended: get(key) returns the entry while at most ttl seconds have passed since
\* the write, and always when the ttl is 0; after that it returns undefined and the
\* entry is gone after the read; the periodic check removes the stale entries, and
\* only those.
C30_ReturnedUntilTtlPassed ==
    [][/\ \A key \in DOMAIN lastSet :
             GetStep(key) =>
                 LET w == lastSet[key]
                 IN  IF TtlSeconds(w) = 0 \/ now - w.at <= TtlSeconds(w) * 1000
                     THEN cacheResult'.value = w.v
                     ELSE cacheResult'.value = JUndefined /\ ~MapHas(data', key)
       /\ Sweep =>
             \A key \in DOMAIN lastSet :
                 LET w == lastSet[key]
                 IN  MapHas(data', key) <=>
                        /\ MapHas(data, key)
                        /\ TtlSeconds(w) = 0 \/ now - w.at <= TtlSeconds(w) * 1000]_vars

\* an entry written with the standard TTL was read after that had passed: get returned
\* undefined and the entry is gone
C30_Witness ==
    /\ cacheResult.op = "get"
    /\ cacheResult.value = JUndefined
    /\ MapHas(lastSet, cacheResult.key)
    /\ ~lastSet[cacheResult.key].ttl.given
    /\ now - lastSet[cacheResult.key].at > StdTTL * 1000
    /\ ~MapHas(data, cacheResult.key)

----------------------------------------------------------------------------
(* Token cache: properties *)

\* this step is a call getToken(consumerKey)
GetTokenStep(consumerKey) ==
    cacheResult'.op = "getToken" /\ cacheResult'.key = consumerKey /\ nCalls' = nCalls + 1

\* the token data a read of the consumer key's entry finds (undefined: none)
StoredTokenData(consumerKey) == CacheGet(data, GetTokenKey(consumerKey)).value

ExpiresAt(tokenData) == Field(tokenData, <<"e", "x", "p", "i", "r", "e", "s", "A", "t">>)

\* C11: getToken returns null when the entry is absent, when now >= its expiresAt and
\* when its stored hash differs from the caller's hash, and the stored token otherwise;
\* in the expired and the mismatch case the entry is deleted.
C11_GetTokenGuards ==
    [][\A consumerKey \in ConsumerKeys :
          GetTokenStep(consumerKey) =>
              LET stored == StoredTokenData(consumerKey)
                  absent == stored = JUndefined
                  expired == ~absent /\ now >= ExpiresAt(stored).n
                  mismatch == /\ ~absent
                              /\ Field(stored, <<"c", "o", "n", "s", "u", "m", "e", "r", "K", "e", "y">>).s
                                    # HashConsumerKey(consumerKey)
              IN  /\ (absent \/ expired \/ mismatch) => cacheResult'.value = JNull
                  /\ (expired \/ mismatch) => ~MapHas(data', GetTokenKey(consumerKey))
                  /\ ~(absent \/ expired \/ mismatch) =>
                        /\ cacheResult'.value = Field(stored, <<"t", "o", "k", "e", "n">>)
                        /\ data' = data]_vars

\* getToken deleted an entry whose hash was not the caller's, after it had deleted an
\* expired one or not
C11_Witness ==
    /\ cacheResult.op = "getToken" /\ cacheResult.why = "mismatch"
    /\ cacheResult.value = JNull
    /\ ~MapHas(data, GetTokenKey(cacheResult.key))

\* getToken deleted an entry that was alive in the store at its expiresAt
C11_WitnessExpired ==
    /\ cacheResult.op = "getToken" /\ cacheResult.why = "expired"
    /\ ~MapHas(data, GetTokenKey(cacheResult.key))

\* C12: for every expiresIn given to setToken, every token getToken returns has at
\* least 300 s of real life left.
C12_MarginAlways ==
    [][\A consumerKey \in ConsumerKeys :
          (GetTokenStep(consumerKey) /\ cacheResult'.value.t = "string")
              => ExpiresAt(StoredTokenData(consumerKey)).n - now >= 300 * 1000]_vars

\* C13: setToken stores the entry with a TTL of max(300, expiresIn - 300) seconds:
\* 3300 for expiresIn = 3600 and 300 for every expiresIn <= 600.
C13_TokenTtl ==
    [][\A consumerKey \in ConsumerKeys :
          (cacheResult'.op = "setToken" /\ cacheResult'.key = consumerKey
           /\ nCalls' = nCalls + 1) =>
              LET entry == data'[GetTokenKey(consumerKey)]
                  stored == lastSet'[GetTokenKey(consumerKey)].v
                  expiresIn == (ExpiresAt(stored).n - now) \div 1000
                  ttl == entry.t - now
              IN  /\ ExpiresAt(stored).n = now + expiresIn * 1000
                  /\ ttl = Max(300, expiresIn - 300) * 1000
                  /\ expiresIn = 3600 => ttl = 3300 * 1000
                  /\ expiresIn <= 600 => ttl = 300 * 1000]_vars

\* entries with the TTL 3300 s and with the clamped TTL 300 s are in the store
C13_Witness ==
    /\ cacheResult.op = "setToken"
    /\ \E k \in DOMAIN data, o \in DOMAIN data :
          /\ MapHas(lastSet, k) /\ MapHas(lastSet, o)
          /\ data[k].t - lastSet[k].at = 3300 * 1000
          /\ ExpiresAt(lastSet[k].v).n - lastSet[k].at = 3600 * 1000
          /\ data[o].t - lastSet[o].at = 300 * 1000
          /\ ExpiresAt(lastSet[o].v).n - lastSet[o].at = 300 * 1000

\* this step is a call invalidateToken(consumerKey)
InvalidateTokenStep(consumerKey) ==
    /\ cacheResult'.op = "invalidateToken"
    /\ cacheResult'.key = consumerKey
    /\ nCalls' = nCalls + 1

\* C25: after invalidateToken(consumerKey) every getToken(consumerKey) returns null until
\* the next setToken on the consumer key's entry, whether or not a token was cached;
\* invalidateToken leaves the entries of the other consumer keys as they are.
C25_InvalidatedStaysNull ==
    [][\A consumerKey \in ConsumerKeys :
          /\ (consumerKey \in invalidated /\ GetTokenStep(consumerKey))
                => cacheResult'.value = JNull
          /\ InvalidateTokenStep(consumerKey) =>
                \A other \in ConsumerKeys :
                    LET key == GetTokenKey(other)
                    IN  key # GetTokenKey(consumerKey) =>
                           /\ MapHas(data', key) = MapHas(data, key)
                           /\ MapHas(data, key) => data'[key] = data[key]]_vars

\* a token was cached for the consumer key, the key was invalidated, time passed and
\* getToken returned null
C25_Witness ==
    /\ cacheResult.op = "getToken"
    /\ cacheResult.key \in invalidated
    /\ cacheResult.value = JNull
    /\ \E token \in Tokens : <<cacheResult.key, token>> \in cachedUnder
    /\ now > 0

----------------------------------------------------------------------------
(* Rate limiter: properties of reset, getStatus and the strategy *)

\* the window keys fixedWindowCheck makes for a key
WindowKeysOf(key) == {WindowKey(key, WindowStart(t)) : t \in Instants(strategy)}

\* nothing is stored for the key
NeverUsed(key) ==
    /\ ~MapHas(buckets, key)
    /\ ~MapHas(slidingWindows, key)
    /\ WindowKeysOf(key) \cap DOMAIN fixedWindows = {}

\* C18: after reset(key) nothing is stored for the key, as for a key that was never
\* used, and reset of a key for which nothing is stored changes nothing.
C18_ResetToInitial ==
    [][\A key \in Keys :
          (rlResult'.op = "reset" /\ rlResult'.key = key /\ nCalls' = nCalls + 1) =>
              /\ NeverUsed(key)'
              /\ NeverUsed(key) =>
                    UNCHANGED <<buckets, slidingWindows, fixedWindows>>]_vars

\* C19: getStatus leaves all that the limiter stores as it was.
C19_GetStatusReadOnly ==
    [][(rlResult'.op = "getStatus" /\ nCalls' = nCalls + 1)
          => UNCHANGED <<buckets, slidingWindows, fixedWindows>>]_vars

\* C20: with a strategy name it does not know the limiter never admits a call, and what
\* isAllowed throws is a ConfigurationError, not the RateLimitError of a rejection.
C20_UnknownStrategyFailsFast ==
    (strategy = UnknownStrategy /\ rlResult.op = "isAllowed") =>
        /\ ~rlResult.allowed
        /\ rlResult.thrown = "ConfigurationError"

----------------------------------------------------------------------------
(* Monitoring: MetricsCollector *)

PaymentAmount ==
    <<"p", "a", "y", "m", "e", "n", "t", ".", "a", "m", "o", "u", "n", "t">>

\* requiredCounters of getMetrics
RequiredCounters ==
    << <<"a", "u", "t", "h", ".", "s", "u", "c", "c", "e", "s", "s">>,
       <<"a", "u", "t", "h", ".", "c", "a", "c", "h", "e", "_", "m", "i", "s", "s">>,
       <<"a", "u", "t", "h", ".", "c", "a", "c", "h", "e", "_", "h", "i", "t">>,
       <<"a", "u", "t", "h", ".", "e", "r", "r", "o", "r">>,
       <<"p", "a", "y", "m", "e", "n", "t", ".", "c", "r", "e", "a", "t", "e", ".", "s", "u", "c", "c", "e", "s", "s">>,
       <<"p", "a", "y", "m", "e", "n", "t", ".", "c", "r", "e", "a", "t", "e", ".", "e", "r", "r", "o", "r">>,
       <<"p", "a", "y", "m", "e", "n", "t", ".", "v", "e", "r", "i", "f", "y", ".", "s", "u", "c", "c", "e", "s", "s">>,
       <<"p", "a", "y", "m", "e", "n", "t", ".", "v", "e", "r", "i", "f", "y", ".", "e", "r", "r", "o", "r">>,
       <<"p", "a", "y", "m", "e", "n", "t", ".", "s", "t", "a", "t", "u", "s">> >>

\* the metric names the calls are made with: a required one and another one
MetricNames == {RequiredCounters[1], PaymentAmount}

\* the tags the calls are made with: none, and two whose keys are not in order
TagSets ==
    { <<>>,
      << [k |-> <<"e", "r", "r", "o", "r">>, v |-> JStr(<<"E">>)],
         [k |-> <<"c", "u", "r", "r", "e", "n", "c", "y">>, v |-> JStr(<<"K", "E", "S">>)] >> }

\* the values histogram is called with
Observations == {1, 2}

\* longest run of metrics operations explored
MaxMetricOps == 4

\* a Map is the sequence of its entries in the order of their insertion
EntriesHas(m, k) == \E i \in 1..Len(m) : m[i].k = k

EntriesGet(m, k) == m[CHOOSE i \in 1..Len(m) : m[i].k = k].v

EntriesSet(m, k, v) ==
    IF EntriesHas(m, k)
    THEN [i \in 1..Len(m) |-> IF m[i].k = k THEN [k |-> k, v |-> v] ELSE m[i]]
    ELSE Append(m, [k |-> k, v |-> v])

RECURSIVE StrLess(_, _)
\* a.localeCompare(b) < 0, for strings of lower-case letters
StrLess(a, b) ==
    IF b = <<>> THEN FALSE
    ELSE IF a = <<>> THEN TRUE
    ELSE IF Head(a) = Head(b) THEN StrLess(Tail(a), Tail(b))
    ELSE CodeOf[Head(a)] < CodeOf[Head(b)]

\* entries.sort(([a], [b]) => a.localeCompare(b)), the keys being distinct
SortedByKey(entries) ==
    [i \in 1..Len(entries) |->
        entries[CHOOSE j \in 1..Len(entries) :
                    Cardinality({l \in 1..Len(entries) : StrLess(entries[l].k, entries[j].k)})
                        = i - 1]]

\* a string or a number inside a template literal
TemplateText(v) == IF v.t = "number" THEN IntToStr(v.n) ELSE v.s

RECURSIVE Join(_, _)
\* parts.join(sep)
Join(parts, sep) ==
    IF parts = <<>> THEN <<>>
    ELSE IF Len(parts) = 1 THEN parts[1]
    ELSE parts[1] \o <<sep>> \o Join(Tail(parts), sep)

\* MetricsCollector.getMetricKey
GetMetricKey(name, tags) ==
    LET sorted == SortedByKey(tags)
        tagString == Join([i \in 1..Len(sorted) |->
                              sorted[i].k \o <<":">> \o TemplateText(sorted[i].v)], ",")
    IN  IF tagString # <<>> THEN name \o <<"|">> \o tagString ELSE name

RECURSIVE ParsedTags(_, _)
\* the loop of parseMetricKey over the pairs of the tag string
ParsedTags(pairs, tags) ==
    IF pairs = <<>> THEN tags
    ELSE LET kv == Split(Head(pairs), ":")
             value == IF Len(kv) >= 2 THEN JStr(kv[2]) ELSE JUndefined
         IN  ParsedTags(Tail(pairs), EntriesSet(tags, kv[1], value))

\* MetricsCollector.parseMetricKey
ParseMetricKey(key) ==
    LET parts == Split(key, "|")
        tagString == IF Len(parts) >= 2 THEN parts[2] ELSE <<>>
    IN  [name |-> parts[1],
         tags |-> IF tagString # <<>> THEN ParsedTags(Split(tagString, ","), <<>>) ELSE <<>>]

\* [...values].sort((a, b) => a - b)
SortedNumbers(vs) ==
    [i \in 1..Len(vs) |->
        CHOOSE v \in {vs[j] : j \in 1..Len(vs)} :
            /\ Cardinality({j \in 1..Len(vs) : vs[j] < v}) < i
            /\ i <= Cardinality({j \in 1..Len(vs) : vs[j] <= v})]

\* percentiles of calculatePercentiles
Percentiles == {50, 75, 90, 95, 99}

PercentileIndexFloor(p, n) == (p * n) \div 100

\* Math.max(0, Math.ceil((p / 100) * n) - 1); the products of p / 100 by the lengths
\* up to 1000 that a histogram keeps round as the real products do
PercentileIndex(p, n) == Max(0, CeilDiv(p * n, 100) - 1)

\* MetricsCollector.calculatePercentiles
CalculatePercentiles(vs) ==
    IF Len(vs) = 0 THEN EmptyMap
    ELSE LET sorted == SortedNumbers(vs) IN
         [k \in {<<"p">> \o NatToStr(p) : p \in Percentiles} |->
             LET p == CHOOSE x \in Percentiles : <<"p">> \o NatToStr(x) = k
             IN  sorted[PercentileIndex(p, Len(sorted)) + 1]]

\* options.enableHistograms !== false
EnableHistograms == monOpts.enableHistograms

\* sum / count
Ratio(a, b) == [num |-> a, den |-> b]

RECURSIVE Grouped(_, _)
\* snapshot[name] = snapshot[name] || []; snapshot[name].push(item), for every item
Grouped(items, acc) ==
    IF items = <<>> THEN acc
    ELSE LET name == Head(items).name
             sofar == IF MapHas(acc, name) THEN acc[name] ELSE <<>>
         IN  Grouped(Tail(items), MapPut(acc, name, Append(sofar, Head(items).item)))

EnsureNothing(counters) == counters

RECURSIVE EnsureFrom(_, _)
EnsureFrom(names, counters) ==
    IF names = <<>> THEN counters
    ELSE EnsureFrom(Tail(names),
                    IF MapHas(counters, Head(names)) THEN counters
                    ELSE MapPut(counters, Head(names), <<>>))

\* "Ensure required counters always exist"
EnsureRequired(counters) == EnsureFrom(RequiredCounters, counters)

\* what getMetrics returns
Snapshot ==
    LET counterItems ==
            [i \in 1..Len(metrics.counters) |->
                LET e == metrics.counters[i] IN
                [name |-> ParseMetricKey(e.k).name,
                 item |-> [value |-> e.v, tags |-> ParseMetricKey(e.k).tags]]]
        gaugeItems ==
            [i \in 1..Len(metrics.gauges) |->
                LET e == metrics.gauges[i] IN
                [name |-> ParseMetricKey(e.k).name,
                 item |-> [value |-> e.v.value, tags |-> ParseMetricKey(e.k).tags,
                           timestamp |-> e.v.timestamp]]]
        histogramItems ==
            [i \in 1..Len(metrics.histograms) |->
                LET e == metrics.histograms[i] IN
                [name |-> ParseMetricKey(e.k).name,
                 item |-> [count |-> e.v.count, sum |-> e.v.sum, min |-> e.v.min,
                           max |-> e.v.max, mean |-> Ratio(e.v.sum, e.v.count),
                           percentiles |-> CalculatePercentiles(e.v.values),
                           tags |-> ParseMetricKey(e.k).tags]]]
    IN  [timestamp |-> now,
         uptime |-> now - startTime,
         counters |-> EnsureRequired(Grouped(counterItems, EmptyMap)),
         gauges |-> Grouped(gaugeItems, EmptyMap),
         histograms |-> Grouped(histogramItems, EmptyMap)]

\* the frame of the operations of the metrics collector
MetricsOp ==
    /\ nCalls < MaxMetricOps
    /\ nCalls' = nCalls + 1
    /\ UNCHANGED <<now, checks, run, values, percentiles, rlVars, cbVars, cacheVars, clientVars>>

\* MetricsCollector.increment: the metrics after the call
Counted(m, name, value, tags) ==
    LET key == GetMetricKey(name, tags)
        current == IF EntriesHas(m.counters, key) THEN EntriesGet(m.counters, key) ELSE 0
    IN  [m EXCEPT !.counters = EntriesSet(@, key, current + value)]

\* MetricsCollector.increment
Increment(name, value, tags) ==
    /\ MetricsOp
    /\ metrics' = Counted(metrics, name, value, tags)
    /\ UNCHANGED <<startTime, monOpts, snapshot>>

\* MetricsCollector.gauge
Gauge(name, value, tags) ==
    /\ MetricsOp
    /\ metrics' = [metrics EXCEPT !.gauges =
                       EntriesSet(@, GetMetricKey(name, tags),
                                  [value |-> value, timestamp |-> now])]
    /\ UNCHANGED <<startTime, monOpts, snapshot>>

RetainedThousand(pushed) ==
    IF Len(pushed) > 1000 THEN SubSeq(pushed, Len(pushed) - 999, Len(pushed)) ELSE pushed

\* if (histogram.values.length > 1000) histogram.values = histogram.values.slice(-500)
Retained(pushed) ==
    IF Len(pushed) > 1000 THEN SubSeq(pushed, Len(pushed) - 499, Len(pushed)) ELSE pushed

\* MetricsCollector.histogram: the metrics after the call; a new histogram starts with
\* min Infinity and max -Infinity, which its first value replaces at once
Observed(m, name, value, tags) ==
    IF ~EnableHistograms THEN m
    ELSE LET key == GetMetricKey(name, tags)
             fresh == ~EntriesHas(m.histograms, key)
             h == IF fresh
                  THEN [values |-> <<>>, count |-> 0, sum |-> 0, min |-> value, max |-> value]
                  ELSE EntriesGet(m.histograms, key)
             pushed == Append(h.values, value)
         IN  [m EXCEPT !.histograms =
                EntriesSet(@, key,
                    [values |-> Retained(pushed),
                     count |-> h.count + 1,
                     sum |-> h.sum + value,
                     min |-> Min(h.min, value),
                     max |-> Max(h.max, value)])]

\* MetricsCollector.histogram
Recorded(name, value, tags) ==
    /\ metrics' = Observed(metrics, name, value, tags)
    /\ UNCHANGED <<startTime, monOpts, snapshot>>

Histogram(name, value, tags) == MetricsOp /\ Recorded(name, value, tags)

\* MetricsCollector.getMetrics
GetMetrics ==
    /\ MetricsOp
    /\ snapshot' = Snapshot
    /\ UNCHANGED <<metrics, startTime, monOpts>>

\* MetricsCollector.reset
MetricsReset ==
    /\ MetricsOp
    /\ metrics' = [counters |-> <<>>, gauges |-> <<>>, histograms |-> <<>>, timers |-> <<>>]
    /\ startTime' = now
    /\ UNCHANGED <<snapshot, monOpts>>

\* the instants of the metrics runs
MetricsInstants == {1000}

InitMetrics == InitCache

NextMetrics ==
    \/ \E name \in MetricNames, tags \in TagSets : Increment(name, 1, tags)
    \/ \E name \in MetricNames, tags \in TagSets : Gauge(name, 5, tags)
    \/ \E name \in MetricNames, value \in Observations : Histogram(name, value, <<>>)
    \/ GetMetrics
    \/ MetricsReset
    \/ \E t \in MetricsInstants : Elapse(t)

SpecMetrics == InitMetrics /\ [][NextMetrics]_vars

\* Long runs of histogram(name, v) on one metric: the samples are numbered, the k-th
\* sample recorded since the last reset has the value k.
MaxRecorded == 1505

SamplesRecorded(name) ==
    LET key == GetMetricKey(name, <<>>)
    IN  IF EntriesHas(metrics.histograms, key)
        THEN EntriesGet(metrics.histograms, key).count ELSE 0

RecordNext(name) ==
    /\ SamplesRecorded(name) < MaxRecorded
    /\ Recorded(name, SamplesRecorded(name) + 1, <<>>)
    /\ UNCHANGED <<now, nCalls, checks, run, values, percentiles, rlVars, cbVars, cacheVars, clientVars>>

NextRetention ==
    \/ RecordNext(PaymentAmount)
    \/ MetricsReset

SpecRetention == InitMetrics /\ [][NextRetention]_vars

\* longest sequence of samples drawn from SampleValues
MaxSamples == 4

SampleValues == {1, 2, 3}

\* the samples 100, 99, ..., 1
OneToHundred == [i \in 1..100 |-> 101 - i]

Samples ==
    UNION {[1..n -> SampleValues] : n \in 0..MaxSamples} \cup {OneToHundred}

CalculateStep ==
    /\ ~percentiles.done
    /\ percentiles' = [done |-> TRUE, result |-> CalculatePercentiles(values)]
    /\ UNCHANGED <<now, nCalls, metrics, startTime, monOpts, snapshot, checks, run, values,
                   rlVars, cbVars, cacheVars, clientVars>>

InitPercentiles ==
    /\ now = 0
    /\ nCalls = 0
    /\ \E k \in EncryptionKeys : CacheConstructed(k)
    /\ RLConstructed(<<TokenBucketStrategy, ClientConfig>>)
    /\ CBConstructed(DefaultOptions)
    /\ MonConstructed
    /\ CallersIdle
    /\ values \in Samples

NextPercentiles == CalculateStep

SpecPercentiles == InitPercentiles /\ [][NextPercentiles]_vars

----------------------------------------------------------------------------
(* Monitoring: properties of the metrics *)

\* C16: each percentile p of 50, 75, 90, 95, 99 reported for n samples is the element
\* at index max(0, ceil(p/100 * n) - 1) of the samples in ascending order, which is the
\* smallest sample with at least p percent of the samples at or below it; for the
\* samples 1..100 p50 is 50.
C16_NearestRank ==
    (percentiles.done /\ Len(values) > 0) =>
        /\ DOMAIN percentiles.result = {<<"p">> \o NatToStr(p) : p \in Percentiles}
        /\ \A p \in Percentiles :
              LET n == Len(values)
                  v == percentiles.result[<<"p">> \o NatToStr(p)]
                  atMost(x) == Cardinality({j \in 1..n : values[j] <= x})
                  below(x) == Cardinality({j \in 1..n : values[j] < x})
              IN  /\ \E j \in 1..n : values[j] = v
                  /\ below(v) <= Max(0, CeilDiv(p * n, 100) - 1)
                  /\ Max(0, CeilDiv(p * n, 100) - 1) < atMost(v)
        /\ values = OneToHundred => percentiles.result[<<"p", "5", "0">>] = 50

\* the percentiles of the samples 1..100 have been calculated
C16_Witness ==
    /\ percentiles.done
    /\ values = OneToHundred
    /\ percentiles.result[<<"p", "9", "9">>] = 99

\* C17: every snapshot getMetrics returns has an entry for each of the required
\* counters, whatever calls of increment, gauge, histogram and reset came before.
C17_RequiredCounters ==
    snapshot # NoSnapshot =>
        \A i \in 1..Len(RequiredCounters) : MapHas(snapshot.counters, RequiredCounters[i])

\* a snapshot taken right after a reset that followed observations: the required
\* counters it holds are all empty
C17_Witness ==
    /\ snapshot # NoSnapshot
    /\ metrics.counters = <<>>
    /\ nCalls >= 3
    /\ snapshot.uptime = 0 /\ snapshot.timestamp > 0
    /\ \A i \in 1..Len(RequiredCounters) : snapshot.counters[RequiredCounters[i]] = <<>>

\* the samples held for the metric and the number recorded since the last reset
HeldSamples(name) ==
    LET key == GetMetricKey(name, <<>>)
    IN  IF EntriesHas(metrics.histograms, key)
        THEN EntriesGet(metrics.histograms, key).values ELSE <<>>

\* the most recent r of n numbered samples
MostRecent(r, n) == [i \in 1..r |-> n - r + i]

\* C29: the samples held for a metric are its most recent min(n, 1000) samples, n being
\* the number recorded since the last reset.
C29_LatestThousandHeld ==
    LET n == SamplesRecorded(PaymentAmount)
    IN  HeldSamples(PaymentAmount) = MostRecent(Min(n, 1000), n)

\* C29, amended: the samples held are the most recent r samples, with r = n up to 1000
\* samples and r = 500 + (n - 1001) mod 501 from the 1001st on; at most 1000 are held.
C29_LatestHeldAfterCuts ==
    LET n == SamplesRecorded(PaymentAmount)
        r == IF n <= 1000 THEN n ELSE 500 + ((n - 1001) % 501)
    IN  /\ HeldSamples(PaymentAmount) = MostRecent(r, n)
        /\ Len(HeldSamples(PaymentAmount)) <= 1000

\* the list of samples was cut a second time
C29_Witness ==
    /\ SamplesRecorded(PaymentAmount) = 1502
    /\ Len(HeldSamples(PaymentAmount)) = 500

----------------------------------------------------------------------------
(* Monitoring: HealthChecker *)

\* the probes that get registered
ProbeNames == {"cache", "rate-limiter", "metrics"}

\* the options they are registered with: none, and a short timeout with critical: false
ProbeOptions ==
    { [timeout |-> JUndefined, critical |-> JUndefined],
      [timeout |-> JNum(1000), critical |-> JBool(FALSE)] }

\* the instants of the health runs
HealthInstants == {1000, 5000}

\* longest run of register and check calls explored
MaxHealthOps == 4

\* what a probe resolves with, and the messages of the errors
ProbeResult == JObj(<< <<"h", "e", "a", "l", "t", "h", "y">> >>, << JBool(TRUE) >>)

ProbeFailedMessage == <<"d", "o", "w", "n">>

TimeoutMessage ==
    <<"H", "e", "a", "l", "t", "h", " ", "c", "h", "e", "c", "k", " ", "t", "i", "m", "e", "o", "u", "t">>

\* HealthChecker.register
Register(name, options) ==
    /\ nCalls < MaxHealthOps
    /\ nCalls' = nCalls + 1
    /\ checks' = EntriesSet(checks, name,
                    [timeout |-> IF Falsy(options.timeout) THEN 5000 ELSE options.timeout.n,
                     critical |-> options.critical # JBool(FALSE)])
    /\ UNCHANGED <<now, metrics, startTime, monOpts, snapshot, run, values, percentiles,
                   rlVars, cbVars, cacheVars, clientVars>>

\* the try branch of a probe of check, after the await
RecordHealthy(results, name, config, result) ==
    [results EXCEPT
        !.checks = MapPut(@, name,
                      [status |-> "healthy", result |-> result, error |-> JUndefined,
                       critical |-> config.critical, duration |-> now - results.timestamp]),
        !.summary.healthy = @ + 1]

\* the catch branch of a probe of check
RecordUnhealthy(results, name, config, message) ==
    [results EXCEPT
        !.checks = MapPut(@, name,
                      [status |-> "unhealthy", result |-> JUndefined, error |-> JStr(message),
                       critical |-> config.critical, duration |-> now - results.timestamp]),
        !.summary.unhealthy = @ + 1,
        !.summary.critical = IF config.critical THEN @ + 1 ELSE @,
        !.status = IF config.critical THEN "unhealthy" ELSE @]

FinalStatusInterim(results) == results.status

\* the status check gives its results once all probes are through
FinalStatus(results) ==
    IF results.summary.critical > 0 THEN "critical"
    ELSE IF results.summary.unhealthy > 0 THEN "degraded"
    ELSE results.status

WinsAlways(r, name) == TRUE

\* Promise.race: what happens to a probe decides its race if nothing has decided it yet
Wins(r, name) == name \in r.pending

\* history: the first thing that happens to a probe
Noted(r, name, kind) ==
    IF MapHas(r.first, name) THEN r
    ELSE [r EXCEPT !.first = MapPut(@, name, kind), !.order = Append(@, name)]

\* the continuation of check after await Promise.all(checkPromises)
Continue(r) ==
    IF r.phase = "running" /\ r.pending = {}
    THEN [r EXCEPT !.phase = "returned", !.results.status = FinalStatus(r.results)]
    ELSE r

RECURSIVE Started(_, _, _)
\* check up to its await: the probes are called in the order of their registration, and
\* one that throws at once is recorded at once
Started(r, probes, throwers) ==
    IF probes = <<>> THEN r
    ELSE LET name == Head(probes).k
             config == Head(probes).v
             called == [r EXCEPT !.timers = @ \cup {name}]
         IN  Started(IF name \in throwers
                     THEN [Noted(called, name, "throws") EXCEPT
                              !.results = RecordUnhealthy(@, name, config, ProbeFailedMessage)]
                     ELSE [called EXCEPT !.pending = @ \cup {name},
                                         !.unsettled = @ \cup {name}],
                     Tail(probes), throwers)

\* HealthChecker.check, one call at a time; throwers are the probes whose checkFn throws
Check(throwers) ==
    /\ nCalls < MaxHealthOps
    /\ nCalls' = nCalls + 1
    /\ run.phase # "running"
    /\ throwers \subseteq {checks[i].k : i \in 1..Len(checks)}
    /\ run' = Continue(Started(
                 [NoRun EXCEPT
                     !.phase = "running",
                     !.probes = checks,
                     !.results = [status |-> "healthy", timestamp |-> now, checks |-> EmptyMap,
                                  summary |-> [total |-> Len(checks), healthy |-> 0,
                                               unhealthy |-> 0, critical |-> 0]]],
                 checks, throwers))
    /\ UNCHANGED <<now, metrics, startTime, monOpts, snapshot, checks, values, percentiles,
                   rlVars, cbVars, cacheVars, clientVars>>

\* the checkFn of a probe resolves (ok) or rejects
ProbeSettles(name, ok) ==
    /\ name \in run.unsettled
    /\ LET config == EntriesGet(run.probes, name)
           noted == Noted(run, name, IF ok THEN "resolves" ELSE "rejects")
           settled == [noted EXCEPT !.unsettled = @ \ {name}]
       IN  run' = Continue(
               IF Wins(run, name)
               THEN [settled EXCEPT
                        !.pending = @ \ {name},
                        !.results = IF ok THEN RecordHealthy(@, name, config, ProbeResult)
                                    ELSE RecordUnhealthy(@, name, config, ProbeFailedMessage)]
               ELSE settled)
    /\ UNCHANGED <<now, nCalls, metrics, startTime, monOpts, snapshot, checks, values, percentiles,
                   rlVars, cbVars, cacheVars, clientVars>>

\* the instant the timeout of a probe fires
TimeoutAt(r, name) == r.results.timestamp + EntriesGet(r.probes, name).timeout

\* the timeout of a probe fires
ProbeTimeout(name) ==
    /\ name \in run.timers
    /\ now >= TimeoutAt(run, name)
    /\ LET config == EntriesGet(run.probes, name)
           noted == Noted(run, name, "timeout")
           fired == [noted EXCEPT !.timers = @ \ {name}]
       IN  run' = Continue(
               IF Wins(run, name)
               THEN [fired EXCEPT
                        !.pending = @ \ {name},
                        !.results = RecordUnhealthy(@, name, config, TimeoutMessage)]
               ELSE fired)
    /\ UNCHANGED <<now, nCalls, metrics, startTime, monOpts, snapshot, checks, values, percentiles,
                   rlVars, cbVars, cacheVars, clientVars>>

\* time passes, up to the next timeout
HealthElapse(t) ==
    /\ \A name \in run.timers : TimeoutAt(run, name) >= t
    /\ Elapse(t)

InitHealth == InitCache

NextHealth ==
    \/ \E name \in ProbeNames, options \in ProbeOptions : Register(name, options)
    \/ \E throwers \in SUBSET ProbeNames : Check(throwers)
    \/ \E name \in ProbeNames : ProbeSettles(name, TRUE)
    \/ \E name \in ProbeNames : ProbeSettles(name, FALSE)
    \/ \E name \in ProbeNames : ProbeTimeout(name)
    \/ \E t \in HealthInstants : HealthElapse(t)

SpecHealth == InitHealth /\ [][NextHealth]_vars

----------------------------------------------------------------------------
(* Monitoring: properties of the health checks *)

\* the probes of the run that failed: threw, rejected or ran into their timeout
FailedProbes == {name \in DOMAIN run.first : run.first[name] # "resolves"}

CriticalProbes ==
    {run.probes[i].k : i \in {j \in 1..Len(run.probes) : run.probes[j].v.critical}}

----------------------------------------------------------------------------
(* Client: Pesakit.getOAuthToken over the limiter, the token cache, the breaker and
   the metrics  (src/index.js) *)

\* longest run of getOAuthToken calls explored
MaxClientCalls == 11

\* bucket intervals that pass while a token request is pending
MaxClientTicks == 1

\* this.config.timeout, as the configuration gives it
ConfigTimeout == 1000

\* new PesakitCircuitBreaker({timeout: this.config.timeout, name: 'pesakit-api'})
ClientBreakerOptions == [DefaultOptions EXCEPT !.timeout = ConfigTimeout]

\* this.config.consumerKey
ClientConsumerKey == <<"A">>

\* the template literal auth:<digest of the consumer key>
AuthRateLimitKey == <<"a", "u", "t", "h", ":">> \o HashConsumerKey(ClientConsumerKey)

AuthTimer == <<"a", "u", "t", "h", ".", "g", "e", "t", "_", "t", "o", "k", "e", "n">>

AuthDuration == AuthTimer \o <<".", "d", "u", "r", "a", "t", "i", "o", "n">>

\* what the provider answers with HTTP 200: a token and expires_in, or none (0)
ClientAnswers == { [token |-> <<"t", "2">>, expires_in |-> 300] }

\* how the token request fails: no answer, HTTP 401, HTTP 500
ProviderErrors == WorkErrors \cup { [code |-> "none", status |-> 500] }

\* the instants the clock is moved to while nothing is pending
ClientInstants == {300000}

EntriesDel(m, k) == SelectSeq(m, LAMBDA e : e.k # k)

\* metrics.startTimer('auth.get_token')
TimerStarted(m) == [m EXCEPT !.timers = EntriesSet(@, GetMetricKey(AuthTimer, <<>>), now)]

\* timer.end() of a timer started at startedAt
TimerEnded(m, startedAt) ==
    Observed([m EXCEPT !.timers = EntriesDel(@, GetMetricKey(AuthTimer, <<>>))],
             AuthDuration, now - startedAt, <<>>)

\* error.constructor.name of what the try block threw
ErrorName(kind) ==
    CASE kind \in {"NetworkError", "NetworkErrorOpen"} ->
            <<"N", "e", "t", "w", "o", "r", "k", "E", "r", "r", "o", "r">>
      [] kind = "RateLimitError" ->
            <<"R", "a", "t", "e", "L", "i", "m", "i", "t", "E", "r", "r", "o", "r">>
      [] kind = "original" -> <<"A", "x", "i", "o", "s", "E", "r", "r", "o", "r">>
      [] OTHER -> <<"E", "r", "r", "o", "r">>

\* the catch of getOAuthToken: timer.end(), then the error counter tagged with the class
Failed(m, startedAt, kind) ==
    Counted(TimerEnded(m, startedAt), RequiredCounters[4], 1,
            << [k |-> <<"e", "r", "r", "o", "r">>, v |-> JStr(ErrorName(kind))] >>)

\* the catch of getOAuthToken: what it throws for what the try block threw
Caught(thrown, answered) ==
    [kind |-> IF thrown.kind = "original" /\ thrown.cause.status = 401
              THEN "AuthenticationError" ELSE "NetworkError",
     token |-> <<>>, cached |-> FALSE, answered |-> answered]

CacheHitNever(cachedToken) == FALSE

\* if (cachedToken)
CacheHit(cachedToken) == ~Falsy(cachedToken)

\* Pesakit.getOAuthToken up to the point where it returns, throws, or awaits the
\* token request
GetOAuthToken ==
    /\ nCalls < MaxClientCalls
    /\ inflight = EmptyBag
    /\ nCalls' = nCalls + 1
    /\ strategy = TokenBucketStrategy
    /\ tokenBucketCheck(AuthRateLimitKey, 1)
    /\ UNCHANGED <<now, strategy, cfg, rlStatus, cbOpts, encryptionKey, startTime, monOpts, snapshot,
                   checks, run, values, percentiles, pending, spent, timed>>
    /\ LET started == TimerStarted(metrics) IN
       IF ~rlResult'.allowed
       THEN /\ UNCHANGED <<breakers, inflight, cbResult, data, cacheResult, lastSet,
                           cachedUnder, invalidated>>
            /\ metrics' = Failed(started, now, "RateLimitError")
            /\ authResult' = Caught(Thrown("RateLimitError", NoError, 0), 0)
       ELSE /\ GotToken(ClientConsumerKey)
            /\ UNCHANGED <<cachedUnder, invalidated>>
            /\ IF CacheHit(cacheResult'.value)
               THEN /\ UNCHANGED <<breakers, inflight, cbResult>>
                    /\ metrics' = TimerEnded(Counted(started, RequiredCounters[3], 1, <<>>), now)
                    /\ authResult' = [kind |-> "token", token |-> cacheResult'.value.s,
                                      cached |-> TRUE, answered |-> 0]
               ELSE /\ ProtectStep("auth")
                    /\ LET missed == Counted(started, RequiredCounters[2], 1, <<>>) IN
                       IF inflight' = inflight
                       THEN /\ metrics' = Failed(missed, now, cbResult'.kind)
                            /\ authResult' = Caught(cbResult', 0)
                       ELSE /\ metrics' = missed
                            /\ UNCHANGED authResult

\* when the token request of a call was made
StartedAt(c) == now - (cbOpts.timeout - c.timeLeft)

\* the token request settles and getOAuthToken goes on from its await to its end
ClientSettle(c, ok, error, answer) ==
    /\ SettleStep(c, ok, error)
    /\ UNCHANGED <<now, nCalls, rlVars, cbOpts, encryptionKey, startTime, monOpts, snapshot,
                   checks, run, values, percentiles, pending, spent, timed>>
    /\ IF cbResult'.kind = "value"
       THEN /\ SetTokenStep(ClientConsumerKey, answer.token,
                            IF answer.expires_in = 0 THEN 3600 ELSE answer.expires_in,
                            [i \in 1..BlockSize |-> 0])
            /\ metrics' = TimerEnded(Counted(metrics, RequiredCounters[1], 1, <<>>),
                                     StartedAt(c))
            /\ authResult' = [kind |-> "token", token |-> answer.token,
                              cached |-> FALSE, answered |-> 200]
       ELSE /\ UNCHANGED <<data, cacheResult, lastSet, cachedUnder, invalidated>>
            /\ metrics' = Failed(metrics, StartedAt(c), cbResult'.kind)
            /\ authResult' = Caught(cbResult', error.status)

\* the breaker times the token request out and getOAuthToken goes on to its catch
ClientTimeout(c) ==
    /\ TimeoutStep(c)
    /\ UNCHANGED <<now, nCalls, rlVars, cbOpts, cacheVars, startTime, monOpts, snapshot,
                   checks, run, values, percentiles, pending, spent, timed>>
    /\ metrics' = Failed(metrics, StartedAt(c), cbResult'.kind)
    /\ authResult' = Caught(cbResult', 0)

\* one bucket interval passes while a token request is pending
ClientTick ==
    /\ inflight # EmptyBag
    /\ now < MaxClientTicks * BucketInterval
    /\ TickStep
    /\ now' = now + BucketInterval
    /\ UNCHANGED <<nCalls, cbOpts, rlVars, cacheVars, monVars, clientVars>>

\* the time to the end of the reset timeout passes while no token request is pending
ClientAwaitReset ==
    /\ inflight = EmptyBag
    /\ \E e \in DOMAIN breakers :
          /\ breakers[e].resetIn > 0
          /\ now' = now + breakers[e].resetIn
          /\ breakers' = [breakers EXCEPT
                              ![e].resetIn = 0,
                              ![e].window = [i \in 1..RollingCountBuckets |-> EmptyBucket]]
    /\ UNCHANGED <<nCalls, cbOpts, inflight, cbResult, rlVars, cacheVars, monVars, clientVars>>

\* a longer time passes while a token is cached and nothing is pending: the rolling
\* windows run empty
ClientElapse(t) ==
    /\ t - now >= BucketInterval * RollingCountBuckets
    /\ inflight = EmptyBag
    /\ MapHas(data, GetTokenKey(ClientConsumerKey))
    /\ \A e \in DOMAIN breakers : breakers[e].resetIn = -1
    /\ now' = t
    /\ breakers' = [e \in DOMAIN breakers |->
                       [breakers[e] EXCEPT
                           !.window = [i \in 1..RollingCountBuckets |-> EmptyBucket]]]
    /\ UNCHANGED <<nCalls, cbOpts, inflight, cbResult, rlVars, cacheVars, monVars, clientVars>>

\* PesakitCircuitBreaker.healthCheck
HealthCheck ==
    [healthy |-> \A e \in DOMAIN breakers : breakers[e].state # "OPEN",
     breakers |-> [e \in DOMAIN breakers |->
                      [state |-> breakers[e].state,
                       healthy |-> breakers[e].state # "OPEN",
                       stats |-> Stats(breakers[e])]]]

\* the state right after new Pesakit(config)
InitClient ==
    /\ now = 0
    /\ nCalls = 0
    /\ RLConstructed(<<TokenBucketStrategy, ClientConfig>>)
    /\ CBConstructed(ClientBreakerOptions)
    /\ \E k \in EncryptionKeys : CacheConstructed(k)
    /\ MonConstructed
    /\ CallersIdle
    /\ values = <<>>

NextClient ==
    \/ GetOAuthToken
    \/ \E c \in BagToSet(inflight), answer \in ClientAnswers :
          ClientSettle(c, TRUE, NoError, answer)
    \/ \E c \in BagToSet(inflight), error \in ProviderErrors :
          ClientSettle(c, FALSE, error, [token |-> <<>>, expires_in |-> 0])
    \/ \E c \in BagToSet(inflight) : ClientTimeout(c)
    \/ HalfOpen("auth")
    \/ ClientTick
    \/ ClientAwaitReset
    \/ \E t \in ClientInstants : ClientElapse(t)

SpecClient == InitClient /\ [][NextClient]_vars

(* Client: properties *)

AuthBreaker == GetBreaker("auth")

\* the calls made so far were n, one after the other, and each reached the provider and
\* failed with an error the classifier calls retryable
FailedInARow(n) ==
    /\ nCalls = n
    /\ inflight = EmptyBag
    /\ Stats(AuthBreaker).fires = n
    /\ Stats(AuthBreaker).failures = n
    /\ AuthBreaker.onlyRetryable
    /\ authResult.answered = 500

\* C22: after five consecutive getOAuthToken calls that each failed with HTTP 500 the
\* 'auth' breaker is OPEN and healthCheck() returns healthy = false with that breaker
\* reported as 'OPEN'.
C22_FiveFailuresOpen ==
    FailedInARow(5) =>
        /\ InState("auth", "OPEN")
        /\ ~HealthCheck.healthy
        /\ HealthCheck.breakers["auth"].state = "OPEN"

\* a step of getOAuthToken up to its return, throw or await
GetOAuthTokenStep == nCalls' = nCalls + 1

ClientTokenKey == GetTokenKey(ClientConsumerKey)

\* the entry a successful getOAuthToken wrote is there and neither its time to live nor
\* its expiresAt has passed
CachedValid ==
    /\ MapHas(lastSet, ClientTokenKey)
    /\ MapHas(data, ClientTokenKey)
    /\ Alive(data[ClientTokenKey])
    /\ now < ExpiresAt(lastSet[ClientTokenKey].v).n

CachedToken == Field(lastSet[ClientTokenKey].v, <<"t", "o", "k", "e", "n">>).s

NoNetworkCall == inflight' = inflight /\ breakers' = breakers

\* the order of getOAuthToken: the limiter first, the cache only for an admitted call,
\* the breaker and the network only on a miss
LimiterCacheNetwork ==
    /\ rlResult'.op = "isAllowed" /\ rlResult'.key = AuthRateLimitKey
    /\ ~rlResult'.allowed => NoNetworkCall /\ UNCHANGED <<data, cacheResult>>
    /\ rlResult'.allowed => cacheResult'.op = "getToken"
    /\ ~NoNetworkCall => rlResult'.allowed /\ Falsy(cacheResult'.value)

C24_RejectionByAnswer ==
    /\ authResult.answered = 401 => authResult.kind = "AuthenticationError"
    /\ (authResult.kind \notin {"none", "token"} /\ authResult.answered # 401) =>
           authResult.kind = "NetworkError"

----------------------------------------------------------------------------
(* Circuit breaker: several endpoints, reset  (src/lib/circuit-breaker.js) *)

\* longest run of protect calls explored on one endpoint with reset
MaxBreakerCalls == 5

\* longest run of protect calls explored over several endpoints
MaxEndpointCalls == 3

\* endpoint names given to protect and reset: a name of the client and the empty string
BreakerEndpoints == {"auth", ""}

\* the options these breakers are explored with: a call may outlast the reset timeout
BreakerOptions ==
    [timeout |-> 2000, errorThresholdPercentage |-> 50, resetTimeout |-> 1000,
     volumeThreshold |-> 3, enabled |-> TRUE]

EndpointOptions == [BreakerOptions EXCEPT !.volumeThreshold = 2]

\* what the work rejects with here
BreakerErrors == { [code |-> "ECONNRESET", status |-> 0] }

\* the argument of reset: an endpoint name, or none (null)
NoEndpoint == [given |-> FALSE, name |-> ""]

Named(endpoint) == [given |-> TRUE, name |-> endpoint]

\* if (endpoint)
Truthy(endpoint) == endpoint.given /\ endpoint.name # ""

\* PesakitCircuitBreaker.reset: the breakers after the call
ResetBreakers(endpoint) ==
    IF Disabled(cbOpts) THEN breakers
    ELSE IF Truthy(endpoint)
         THEN IF MapHas(breakers, endpoint.name)
              THEN MapPut(breakers, endpoint.name, Close(breakers[endpoint.name]))
              ELSE breakers
         ELSE [e \in DOMAIN breakers |-> Close(breakers[e])]

BreakerReset(endpoint) ==
    /\ breakers' = ResetBreakers(endpoint)
    /\ UNCHANGED <<now, nCalls, cbOpts, inflight, cbResult, rlVars, cacheVars, monVars,
                   clientVars>>

\* protect, in a run of at most so many calls
ProtectOn(endpoint, most) ==
    /\ nCalls < most
    /\ nCalls' = nCalls + 1
    /\ UNCHANGED <<now, cbOpts, rlVars, cacheVars, monVars, clientVars>>
    /\ ProtectStep(endpoint)

BreakersConstructed(options) ==
    /\ now = 0
    /\ nCalls = 0
    /\ CBConstructed(options)
    /\ RLConstructed(<<TokenBucketStrategy, ClientConfig>>)
    /\ \E k \in EncryptionKeys : CacheConstructed(k)
    /\ MonConstructed
    /\ CallersIdle
    /\ values = <<>>

\* the steps of a circuit breaker used on the given endpoints
BreakerSteps(endpoints, most) ==
    \/ \E e \in endpoints : ProtectOn(e, most)
    \/ \E c \in BagToSet(inflight) : Settle(c, TRUE, NoError)
    \/ \E c \in BagToSet(inflight), error \in BreakerErrors : Settle(c, FALSE, error)
    \/ \E c \in BagToSet(inflight) : Timeout(c)
    \/ \E e \in endpoints : HalfOpen(e)
    \/ Tick
    \/ \E e \in endpoints : BreakerReset(Named(e))
    \/ BreakerReset(NoEndpoint)

InitBreakers == BreakersConstructed(BreakerOptions)

NextBreakers == BreakerSteps({"auth"}, MaxBreakerCalls)

SpecBreakers == InitBreakers /\ [][NextBreakers]_vars

InitEndpoints == BreakersConstructed(EndpointOptions)

NextEndpoints == BreakerSteps(BreakerEndpoints, MaxEndpointCalls)

SpecEndpoints == InitEndpoints /\ [][NextEndpoints]_vars

----------------------------------------------------------------------------
(* Circuit breaker: properties over several endpoints *)

\* a call admitted as the trial of a half-open breaker of the endpoint is in flight
TrialInFlight(e) == \E c \in BagToSet(inflight) : c.endpoint = e /\ c.trial

\* the protect call of this step is refused and the work is not invoked
Refused(e) ==
    /\ inflight' = inflight
    /\ cbResult'.op = "protect" /\ cbResult'.endpoint = e
    /\ ~cbResult'.workInvoked

\* C31: in HALF_OPEN exactly one trial call is let through: while that trial is in flight
\* every other protect call on the same endpoint is refused and the work is not invoked.
C31_OneTrialAtATime ==
    [][\A e \in BreakerEndpoints :
          (InState(e, "HALF_OPEN") /\ TrialInFlight(e) /\ Fired(e)) => Refused(e)]_vars

\* the state of the breaker getBreaker(e) returns, before and after this step
StateOf(e) == GetBreaker(e).state

StateAfter(e) == IF MapHas(breakers', e) THEN breakers'[e].state ELSE NewBreaker.state

BreakerEdges ==
    { <<"CLOSED", "OPEN">>, <<"OPEN", "HALF_OPEN">>,
      <<"HALF_OPEN", "CLOSED">>, <<"HALF_OPEN", "OPEN">> }

ResetStep == \E e \in BreakerEndpoints : BreakerReset(Named(e)) \/ BreakerReset(NoEndpoint)

\* a breaker that is not CLOSED has its way out: the reset timer of an OPEN breaker is
\* running or due, and a HALF_OPEN breaker either admits the next call as its trial or
\* has a call pending
HasWayOut(e) ==
    /\ InState(e, "OPEN") => breakers[e].resetIn >= 0
    /\ InState(e, "HALF_OPEN") =>
           \/ breakers[e].pendingClose
           \/ \E c \in BagToSet(inflight) : c.endpoint = e /\ ~c.direct

\* C32: every breaker starts CLOSED; in the steps that are not reset() its state changes
\* only along CLOSED->OPEN, OPEN->HALF_OPEN, HALF_OPEN->CLOSED and HALF_OPEN->OPEN; and
\* no state is terminal: an OPEN breaker has its reset timer running, a HALF_OPEN breaker
\* admits a trial or has a call pending whose settling, either way, or timing out makes
\* it CLOSED or OPEN.
C32_StateMachine ==
    [][\A e \in BreakerEndpoints :
          /\ (~MapHas(breakers, e) /\ MapHas(breakers', e)) => breakers'[e].state = "CLOSED"
          /\ ~ResetStep =>
                \/ StateAfter(e) = StateOf(e)
                \/ <<StateOf(e), StateAfter(e)>> \in BreakerEdges
          /\ HasWayOut(e) /\ HasWayOut(e)'
          /\ \A c \in BagToSet(inflight) :
                (InState(e, "HALF_OPEN") /\ c.endpoint = e /\ ~c.direct) =>
                    /\ Settle(c, TRUE, NoError) => StateAfter(e) = "CLOSED"
                    /\ (Timeout(c) \/ \E error \in BreakerErrors : Settle(c, FALSE, error))
                           => StateAfter(e) = "OPEN"]_vars

\* the breaker opened on the failure of a trial: it has gone CLOSED, OPEN, HALF_OPEN, OPEN
C32_Witness ==
    /\ InState("auth", "OPEN")
    /\ breakers["auth"].resetIn = cbOpts.resetTimeout
    /\ Stats(breakers["auth"]).fires = 1 /\ Stats(breakers["auth"]).failures = 1
    /\ cbResult.op = "protect" /\ cbResult.endpoint = "auth" /\ cbResult.workInvoked
    /\ cbResult.kind = "NetworkErrorOpen"

\* this step is an operation on the endpoint: a protect call, the settling or timing out
\* of one of its calls, or reset(endpoint)
OperationOn(e) ==
    \/ ProtectOn(e, nCalls + 1)
    \/ \E c \in BagToSet(inflight) :
          /\ c.endpoint = e
          /\ \/ Settle(c, TRUE, NoError)
             \/ \E error \in BreakerErrors : Settle(c, FALSE, error)
             \/ Timeout(c)
    \/ BreakerReset(Named(e))

\* C33: getBreaker returns the same breaker for an endpoint for good, and the calls,
\* failures, opening and reset(endpoint) of one endpoint never change the state or the
\* statistics of the breaker of another endpoint.
C33_EndpointsIsolated ==
    [][\A e \in BreakerEndpoints :
          /\ MapHas(breakers, e) => MapHas(breakers', e)
          /\ OperationOn(e) =>
                \A f \in BreakerEndpoints \ {e} :
                    /\ MapHas(breakers', f) = MapHas(breakers, f)
                    /\ MapHas(breakers, f) =>
                          /\ breakers'[f].state = breakers[f].state
                          /\ Stats(breakers'[f]) = Stats(breakers[f])]_vars

----------------------------------------------------------------------------
(* Rate limiter: concurrent callers of isAllowed  (src/lib/errors.js) *)

\* longest run of isAllowed calls explored with concurrent callers
MaxCallerCalls == 11

\* most callers that await their isAllowed promise at a time
MaxPending == 2

\* the key the concurrent callers contend for
CallerKeys == { <<"a">> }

\* the costs the concurrent callers pass: positive ones
CallerCosts == {1, 2}

CallerSetups ==
    { <<TokenBucketStrategy, ClientConfig>>,
      <<TokenBucketStrategy, SlowConfig>>,
      <<SlidingWindowStrategy, WindowConfig>>,
      <<FixedWindowStrategy, WindowConfig>> }

\* class RateLimitError: super(message, 'RATE_LIMIT_ERROR', 429, details)
CodeThrown(class) == IF class = "RateLimitError" THEN "RATE_LIMIT_ERROR" ELSE "none"

\* the promise an isAllowed call returns: settled when the call returns
Promised(result) ==
    [op |-> "isAllowed", key |-> result.key, cost |-> result.cost,
     allowed |-> result.allowed, code |-> CodeThrown(result.thrown)]

\* history: the bucket of the key dates from this call if the call created it
Spent(key, cost, allowed) ==
    IF strategy # TokenBucketStrategy THEN spent
    ELSE LET before == IF MapHas(buckets, key) /\ MapHas(spent, key) THEN spent[key]
                       ELSE [created |-> now, total |-> 0, refused |-> FALSE]
         IN  MapPut(spent, key, [before EXCEPT !.total = @ + (IF allowed THEN cost ELSE 0),
                                               !.refused = @ \/ ~allowed])

\* a caller calls isAllowed(key, cost): the async function runs its body to the end, for
\* there is no await in it, and hands back a settled promise
CallIsAllowed(key, cost) ==
    /\ nCalls < MaxCallerCalls
    /\ BagCardinality(pending) < MaxPending
    /\ nCalls' = nCalls + 1
    /\ UNCHANGED <<now, strategy, cfg, rlStatus, cbVars, cacheVars, monVars, authResult,
                   timed>>
    /\ Checked(key, cost)
    /\ pending' = pending (+) SetToBag({Promised(rlResult')})
    /\ spent' = Spent(key, cost, rlResult'.allowed)

\* the caller resumes from its await with the outcome of the promise
Resume(c) ==
    /\ c \in BagToSet(pending)
    /\ pending' = pending (-) SetToBag({c})
    /\ UNCHANGED <<now, nCalls, rlVars, cbVars, cacheVars, monVars, authResult, spent,
                   timed>>

InitCallers ==
    /\ now = 0
    /\ nCalls = 0
    /\ \E s \in CallerSetups : RLConstructed(s)
    /\ CBConstructed(DefaultOptions)
    /\ \E k \in EncryptionKeys : CacheConstructed(k)
    /\ MonConstructed
    /\ CallersIdle
    /\ values = <<>>

NextCallers ==
    \/ \E key \in CallerKeys, cost \in CallerCosts : CallIsAllowed(key, cost)
    \/ \E c \in BagToSet(pending) : Resume(c)
    \/ \E t \in Instants(strategy) : Advance(t)

SpecCallers == InitCallers /\ [][NextCallers]_vars

----------------------------------------------------------------------------
(* Rate limiter: properties of concurrent callers *)

\* the bucket isAllowed finds for the key, or creates
BucketOf(key) == IF MapHas(buckets, key) THEN buckets[key] ELSE NewBucket

\* what the key has left at this instant, every call issued so far counted, whether or
\* not its caller has resumed
Left(key) ==
    IF strategy = TokenBucketStrategy THEN Refill(BucketOf(key)).tokens
    ELSE IF strategy = SlidingWindowStrategy
    THEN cfg.requests - Len(Prune(IF MapHas(slidingWindows, key) THEN slidingWindows[key]
                                  ELSE <<>>,
                                  now - cfg.window))
    ELSE LET windowKey == WindowKey(key, WindowStart(now))
         IN  cfg.requests - (IF MapHas(fixedWindows, windowKey)
                             THEN fixedWindows[windowKey].count ELSE 0)

\* what an admitted call takes from the key
Charge(cost) == IF strategy = TokenBucketStrategy THEN cost ELSE 1

\* C34: check and debit of isAllowed are one step: a call is admitted exactly if what the
\* key has left after all calls issued before it, resumed or not, covers it, the debit is
\* in place when the call returns its promise, no key is ever overdrawn, and a caller
\* that resumes changes nothing.
C34_AtomicCheckAndDebit ==
    [][/\ \A key \in CallerKeys, cost \in CallerCosts :
             CallIsAllowed(key, cost) =>
                 /\ rlResult'.allowed = (Left(key) >= Charge(cost))
                 /\ Left(key)' = Left(key) - (IF rlResult'.allowed THEN Charge(cost) ELSE 0)
                 /\ Promised(rlResult') \in BagToSet(pending')
       /\ \A key \in CallerKeys : Left(key)' >= 0
       /\ (\E c \in BagToSet(pending) : Resume(c)) =>
             UNCHANGED <<buckets, slidingWindows, fixedWindows>>]_vars

\* two callers await at once: the call of one took the last of the key, the call of the
\* other was refused
C34_Witness ==
    \E c, d \in BagToSet(pending) :
        /\ c.key = d.key
        /\ c.allowed /\ ~d.allowed
        /\ d.code = "RATE_LIMIT_ERROR"
        /\ Left(c.key) = 0

\* Math.floor(r * elapsed / refillPeriod), r = requests / (window / 1000) a refill period
Earned(key) == (cfg.requests * (now - spent[key].created)) \div cfg.window

\* C37: under token-bucket the cost admitted on a key since its bucket was created is at
\* most burst + floor(r * elapsed / refillPeriod); a refused call throws an error with
\* code RATE_LIMIT_ERROR, and of more calls than that budget one was refused.
C37_BudgetBound ==
    strategy = TokenBucketStrategy =>
        /\ \A key \in DOMAIN spent :
              /\ spent[key].total <= cfg.burst + Earned(key)
              /\ nCalls > cfg.burst + Earned(key) => spent[key].refused
        /\ (rlResult.op = "isAllowed" /\ ~rlResult.allowed) =>
              CodeThrown(rlResult.thrown) = "RATE_LIMIT_ERROR"

\* burst 10: ten calls in a row were admitted and the eleventh, at the same instant, was
\* refused
C37_Witness ==
    /\ strategy = TokenBucketStrategy
    /\ cfg.burst = 10
    /\ nCalls = cfg.burst + 1
    /\ \E key \in DOMAIN spent :
          /\ spent[key].created = now
          /\ spent[key].total = cfg.burst
          /\ spent[key].refused
          /\ rlResult.key = key
    /\ ~rlResult.allowed
    /\ CodeThrown(rlResult.thrown) = "RATE_LIMIT_ERROR"

----------------------------------------------------------------------------
(* Monitoring: MetricsCollector.time over overlapping calls  (src/lib/monitoring.js) *)

\* longest run of time() calls explored
MaxTimeCalls == 3

\* the options the collector is constructed with
TimerOptions == { [enableHistograms |-> TRUE], [enableHistograms |-> FALSE] }

\* the instants at which the timed work settles
TimerInstants == {10, 25}

\* what the timed work does: it resolves with a value, rejects with an Error, or rejects
\* with undefined, as Promise.reject() does
WorkOutcomes ==
    { [kind |-> "value", value |-> JNum(7), error |-> JUndefined],
      [kind |-> "error", value |-> JUndefined, error |-> JStr(ErrorName("Error"))],
      [kind |-> "error", value |-> JUndefined, error |-> JUndefined] }

Suffixed(name, suffix) == name \o <<".">> \o suffix

DurationOf(name) == Suffixed(name, <<"d", "u", "r", "a", "t", "i", "o", "n">>)

SuccessOf(name) == Suffixed(name, <<"s", "u", "c", "c", "e", "s", "s">>)

ErrorOf(name) == Suffixed(name, <<"e", "r", "r", "o", "r">>)

\* { ...tags, error: error.constructor.name }
WithError(tags, constructorName) ==
    EntriesSet(tags, <<"e", "r", "r", "o", "r">>, JStr(constructorName))

\* error.constructor.name throws a TypeError if error is undefined or null
TypeErrorThrown == JStr(<<"T", "y", "p", "e", "E", "r", "r", "o", "r">>)

\* MetricsCollector.startTimer
StartTimer(m, name, tags) == [m EXCEPT !.timers = EntriesSet(@, GetMetricKey(name, tags), now)]

\* the end() of the timer startTimer returns; startedAt is the startTime it closes over
EndTimer(m, name, tags, startedAt) ==
    Observed([m EXCEPT !.timers = EntriesDel(@, GetMetricKey(name, tags))],
             DurationOf(name), now - startedAt, tags)

\* MetricsCollector.time up to its await: the timer is started and the work invoked
Time(name, tags) ==
    /\ nCalls < MaxTimeCalls
    /\ BagCardinality(pending) < MaxPending
    /\ nCalls' = nCalls + 1
    /\ metrics' = StartTimer(metrics, name, tags)
    /\ pending' = pending (+) SetToBag({[op |-> "time", name |-> name, tags |-> tags,
                                         startTime |-> now]})
    /\ UNCHANGED <<now, startTime, monOpts, snapshot, checks, run, values, percentiles,
                   rlVars, cbVars, cacheVars, authResult, spent, timed>>

\* MetricsCollector.time from its await on: the work has settled
TimeSettles(c, outcome) ==
    /\ c \in BagToSet(pending)
    /\ pending' = pending (-) SetToBag({c})
    /\ \E ended \in {EndTimer(metrics, c.name, c.tags, c.startTime)} :
          IF outcome.kind = "value"
          THEN /\ metrics' = Counted(ended, SuccessOf(c.name), 1, c.tags)
               /\ timed' = [NoTimed EXCEPT !.kind = "value", !.value = outcome.value]
          ELSE IF outcome.error = JUndefined
          THEN /\ metrics' = ended
               /\ timed' = [NoTimed EXCEPT !.kind = "error", !.error = TypeErrorThrown]
          ELSE /\ metrics' = Counted(ended, ErrorOf(c.name), 1,
                                     WithError(c.tags, outcome.error.s))
               /\ timed' = [NoTimed EXCEPT !.kind = "error", !.error = outcome.error]
    /\ UNCHANGED <<now, nCalls, startTime, monOpts, snapshot, checks, run, values,
                   percentiles, rlVars, cbVars, cacheVars, authResult, spent>>

InitTimers ==
    /\ now = 0
    /\ nCalls = 0
    /\ RLConstructed(<<TokenBucketStrategy, ClientConfig>>)
    /\ CBConstructed(DefaultOptions)
    /\ \E k \in EncryptionKeys : CacheConstructed(k)
    /\ \E options \in TimerOptions : MonConstructedWith(options)
    /\ CallersIdle
    /\ values = <<>>

NextTimers ==
    \/ \E tags \in TagSets : Time(AuthTimer, tags)
    \/ \E c \in BagToSet(pending), outcome \in WorkOutcomes : TimeSettles(c, outcome)
    \/ \E t \in TimerInstants : Elapse(t)

SpecTimers == InitTimers /\ [][NextTimers]_vars

----------------------------------------------------------------------------
(* Monitoring: properties of time *)

\* the samples recorded under a histogram key
SampleCount(m, key) ==
    IF EntriesHas(m.histograms, key) THEN EntriesGet(m.histograms, key).count ELSE 0

RECURSIVE CountedUnder(_, _)
\* the sum of the counters of a name, over all its tags
CountedUnder(counters, name) ==
    IF counters = <<>> THEN 0
    ELSE (IF Head(counters).k = name \/ StartsWith(Head(counters).k, name \o <<"|">>)
          THEN Head(counters).v ELSE 0) + CountedUnder(Tail(counters), name)

\* C35: each call of time records one duration sample and counts once, as a success if
\* the work resolved, whose value it returns, and as an error if the work rejected,
\* whose error it throws, also when calls with the same name overlap.
C35_TimeRecordsOnce ==
    [][\A c \in BagToSet(pending), outcome \in WorkOutcomes :
          TimeSettles(c, outcome) =>
              /\ SampleCount(metrics', GetMetricKey(DurationOf(c.name), c.tags))
                    = SampleCount(metrics, GetMetricKey(DurationOf(c.name), c.tags)) + 1
              /\ CountedUnder(metrics'.counters, SuccessOf(c.name))
                    = CountedUnder(metrics.counters, SuccessOf(c.name))
                        + (IF outcome.kind = "value" THEN 1 ELSE 0)
              /\ CountedUnder(metrics'.counters, ErrorOf(c.name))
                    = CountedUnder(metrics.counters, ErrorOf(c.name))
                        + (IF outcome.kind = "error" THEN 1 ELSE 0)
              /\ timed'.kind = outcome.kind
              /\ timed'.value = outcome.value
              /\ timed'.error = outcome.error]_vars

----------------------------------------------------------------------------
(* Monitoring: HealthChecker.check under the timers of the event loop
   (src/lib/monitoring.js) *)

\* the probes registered in the runs that are followed to their end
LiveProbeNames == {"cache", "metrics"}

\* the process runs: no rejection without a handler has ended it
ProcessAlive == run.phase # "terminated"

\* the timeout of a probe that threw at once fires: its timeoutPromise was never given to
\* Promise.race, so nothing handles the rejection. What the runtime does with it is its
\* choice: it warns and goes on (ProbeTimeout), or it raises the rejection as an uncaught
\* exception, which ends the process
UnhandledRejection(name) ==
    /\ name \in run.timers
    /\ now >= TimeoutAt(run, name)
    /\ MapHas(run.first, name)
    /\ run.first[name] = "throws"
    /\ run' = [run EXCEPT !.phase = IF @ = "running" THEN "terminated" ELSE @,
                          !.timers = @ \ {name}]
    /\ UNCHANGED <<now, nCalls, metrics, startTime, monOpts, snapshot, checks, values,
                   percentiles, rlVars, cbVars, cacheVars, clientVars>>

\* time passes until the next timeout is due
DueElapse ==
    /\ ProcessAlive
    /\ \E name \in run.timers : HealthElapse(TimeoutAt(run, name))

\* the timers of the event loop: a timeout that is due fires
TimerFires ==
    /\ ProcessAlive
    /\ \E name \in LiveProbeNames : ProbeTimeout(name) \/ UnhandledRejection(name)

NextHealthLive ==
    \/ ProcessAlive /\ \E name \in LiveProbeNames, options \in ProbeOptions :
                           Register(name, options)
    \/ ProcessAlive /\ \E throwers \in SUBSET LiveProbeNames : Check(throwers)
    \/ ProcessAlive /\ \E name \in LiveProbeNames : ProbeSettles(name, TRUE)
    \/ ProcessAlive /\ \E name \in LiveProbeNames : ProbeSettles(name, FALSE)
    \/ ProcessAlive /\ \E name \in LiveProbeNames : ProbeTimeout(name)
    \/ ProcessAlive /\ \E name \in LiveProbeNames : UnhandledRejection(name)
    \/ ProcessAlive /\ \E t \in HealthInstants : HealthElapse(t)
    \/ DueElapse

\* time passes and due timers fire; nothing obliges a probe to settle
SpecHealthLive ==
    InitHealth /\ [][NextHealthLive]_vars /\ WF_vars(DueElapse) /\ WF_vars(TimerFires)

\* C36: a call of check that has started returns its report, whatever the probes do.
C36_CheckCompletes == (run.phase = "running") ~> (run.phase = "returned")

----------------------------------------------------------------------------
(* Rate limiter: keys and status *)

\* what the limiter holds for the key that a call at this instant or later consults:
\* its bucket, its timestamps, and the count of its current window
Seen(key) ==
    [bucket   |-> IF MapHas(buckets, key) THEN <<buckets[key]>> ELSE <<>>,
     requests |-> IF MapHas(slidingWindows, key) THEN <<slidingWindows[key]>> ELSE <<>>,
     count    |-> LET windowKey == WindowKey(key, WindowStart(now))
                  IN  IF MapHas(fixedWindows, windowKey)
                      THEN fixedWindows[windowKey].count ELSE 0]

\* C38: isAllowed, getStatus and reset on one key leave what the limiter holds for every
\* other key as it was, whatever the key strings.
C38_KeysIsolated ==
    [][\A key \in Keys : \A other \in Keys \ {key} :
          (IsAllowed(key, 1) \/ GetStatus(key) \/ Reset(key)) =>
              Seen(other)' = Seen(other)]_vars

\* an isAllowed(key) call at this instant would be admitted
WouldAllow(key) ==
    /\ strategy \in {TokenBucketStrategy, SlidingWindowStrategy, FixedWindowStrategy}
    /\ Left(key) >= 1

\* the status reports remaining capacity
ReportsCapacity(status) ==
    /\ status.value # JNull
    /\ IF status.value.strategy = TokenBucketStrategy
       THEN status.value.availableTokens >= 1
       ELSE status.value.remainingRequests >= 1

\* C39: getStatus(key) reports remaining capacity exactly if an isAllowed(key) call at the
\* same instant would be admitted.
C39_StatusAgrees ==
    [][\A key \in Keys :
          GetStatus(key) => (ReportsCapacity(rlStatus') <=> WouldAllow(key))]_vars

----------------------------------------------------------------------------
(* Client: Pesakit.getHealthStatus over the self-checks of the components
   (src/index.js) *)

\* registerHealthChecks: the four probes, registered without options
RegisteredChecks ==
    [i \in 1..4 |->
        [k |-> <<"cache", "circuit-breaker", "rate-limiter", "metrics">>[i],
         v |-> [timeout |-> 5000, critical |-> TRUE]]]

HealthyKey == <<"h", "e", "a", "l", "t", "h", "y">>

\* what the checkFn of a registered probe returns; cacheOk is what the set, get and del
\* of SecureCache.healthCheck come to
SelfCheck(name, cacheOk) ==
    CASE name = "cache" -> JBool(cacheOk)
      [] name = "circuit-breaker" -> JObj(<<HealthyKey>>, <<JBool(HealthCheck.healthy)>>)
      [] name = "rate-limiter" ->
            JObj(<< <<"s", "t", "r", "a", "t", "e", "g", "y">> >>,
                 << JStr(<<"t", "o", "k", "e", "n", "-", "b", "u", "c", "k", "e", "t">>) >>)
      [] OTHER -> JObj(<<HealthyKey>>, <<JBool(TRUE)>>)

RECURSIVE Resolved(_, _, _)
\* the probes return their values at once, so each race is decided by the value of its
\* probe before any timer fires
Resolved(r, probes, cacheOk) ==
    IF probes = <<>> THEN r
    ELSE LET name == Head(probes).k
             noted == Noted(r, name, "resolves")
         IN  Resolved([noted EXCEPT
                          !.unsettled = @ \ {name},
                          !.pending = @ \ {name},
                          !.results = RecordHealthy(@, name, Head(probes).v,
                                                    SelfCheck(name, cacheOk))],
                      Tail(probes), cacheOk)

\* Pesakit.getHealthStatus: healthChecker.check() over the registered probes
GetHealthStatus(cacheOk) ==
    /\ nCalls < MaxClientCalls
    /\ nCalls' = nCalls + 1
    /\ run' = Continue(Resolved(
                 Started([NoRun EXCEPT
                             !.phase = "running",
                             !.probes = checks,
                             !.results = [status |-> "healthy", timestamp |-> now,
                                          checks |-> EmptyMap,
                                          summary |-> [total |-> Len(checks), healthy |-> 0,
                                                       unhealthy |-> 0, critical |-> 0]]],
                         checks, {}),
                 checks, cacheOk))
    /\ UNCHANGED <<now, metrics, startTime, monOpts, snapshot, checks, values, percentiles,
                   rlVars, cbVars, cacheVars, clientVars>>

\* the state right after new Pesakit(config), the probes registered
InitClientHealth ==
    /\ now = 0
    /\ nCalls = 0
    /\ RLConstructed(<<TokenBucketStrategy, ClientConfig>>)
    /\ CBConstructed(ClientBreakerOptions)
    /\ \E k \in EncryptionKeys : CacheConstructed(k)
    /\ MonitoringConstructed(DefaultMonOptions, RegisteredChecks)
    /\ CallersIdle
    /\ values = <<>>

NextClientHealth ==
    \/ GetOAuthToken
    \/ \E c \in BagToSet(inflight), answer \in ClientAnswers :
          ClientSettle(c, TRUE, NoError, answer)
    \/ \E c \in BagToSet(inflight), error \in ProviderErrors :
          ClientSettle(c, FALSE, error, [token |-> <<>>, expires_in |-> 0])
    \/ \E c \in BagToSet(inflight) : ClientTimeout(c)
    \/ HalfOpen("auth")
    \/ ClientTick
    \/ ClientAwaitReset
    \/ \E cacheOk \in BOOLEAN : GetHealthStatus(cacheOk)

SpecClientHealth == InitClientHealth /\ [][NextClientHealth]_vars

\* C40: if a breaker is OPEN or the self-check of the cache fails when getHealthStatus is
\* called, the status it returns is not healthy.
C40_StatusReflectsSelfChecks ==
    [][\A cacheOk \in BOOLEAN :
          GetHealthStatus(cacheOk) =>
              ((~HealthCheck.healthy \/ ~cacheOk) => run'.results.status # "healthy")]_vars

====
